---- MODULE Spec2Model ----
(***************************************************************************)
(* Model of the analysis orchestration engine of the investment analysis   *)
(* platform: the rate-limited LLM caller and the multi-round AI portfolio  *)
(* selector (engine/ai_portfolio_selector.py), and the parallel data       *)
(* fetcher, the agent runner, the score blender, the time-remaining       *)
(* estimator and the portfolio pipeline                                    *)
(* (engine/portfolio_orchestrator.py).                                     *)
(*                                                                         *)
(* Each component has its own variables and its own specification; a       *)
(* specification leaves the variables of the other components at their     *)
(* initial values.                                                         *)
(*                                                                         *)
(* Time is counted in tenths of a second.                                  *)
(***************************************************************************)
EXTENDS Integers, Sequences, FiniteSets, TLC

VARIABLES
    \* ---- rate-limited caller (AIPortfolioSelector._rate_limited_api_call)
    clock,               \* time.time()
    last_api_call_time,  \* self.last_api_call_time
    rl_active,           \* the threads that share the selector instance
    rl_pc,               \* per thread: position in _rate_limited_api_call
    rl_wake,             \* per thread: end of the current sleep / api call
    attempt,             \* per thread: loop variable of the retry loop
    rl_outcome,          \* per thread: outcome of the api_func in flight
    rl_hist,             \* per thread: outcomes of api_func in this call
    rl_waits,            \* per thread: back-off sleeps taken in this call
    rl_ncalls,           \* per thread: calls of _rate_limited_api_call made
    rl_limit,            \* calls of _rate_limited_api_call a thread may make
    prev_start,          \* when api_func was last invoked (-1: never)
    min_gap,             \* least distance seen between two invocations
    \* ---- AI candidate selector (AIPortfolioSelector.select_portfolio_tickers)
    sel_pc,                 \* the stage select_portfolio_tickers is at
    openai_tickers,         \* list returned by _openai_select_tickers
    gemini_tickers,         \* list returned by _gemini_select_tickers
    all_candidates,         \* list(set(openai_tickers + gemini_tickers))
    ticker_rationales,      \* ticker -> rationale
    final_selection_rounds, \* the picks of the narrowing rounds
    unique_finalists,       \* list(set(round_1 + round_2 + round_3))
    final_tickers,          \* the final selection
    session_log,            \* session_log['stages']
    saved_logs,             \* the documents written to portfolio_selection_logs/
    sel_calls,              \* LLM calls made: call site, provider, rate limited or not
    sel_fellback,           \* the calls that were replaced by their static fallback
    sel_result,             \* what select_portfolio_tickers returned
    \* ---- parallel data fetcher (PortfolioOrchestrator._gather_data)
    g_pc,        \* position in _gather_data
    g_tasks,     \* what each of the three submitted tasks does
    g_pending,   \* the futures as_completed has not yielded yet
    g_collected, \* the order in which as_completed yielded the futures
    data,        \* the dict _gather_data builds and returns
    \* ---- per-ticker analysis (PortfolioOrchestrator.analyze_single_stock)
    a_pc,             \* position in analyze_single_stock
    agent_weights,    \* self.agent_weights, in hundredths
    a_override,       \* the agent_weights argument of the running call
    original_weights, \* the copy taken before the overrides are applied
    a_gather,         \* how _gather_data ended: "raised" or "returned"
    a_tasks,          \* what the three tasks submitted by _gather_data did
    a_data,           \* the bundle _gather_data returned
    agent_results,    \* the agent_results dict of the running call
    a_invoked,        \* the agents whose analyze was called, in call order
    a_returned,       \* what each invoked agent did
    progress_log,     \* the percentages passed to update_progress
    progress_phases,  \* the phase each of those updates was made in
    a_result,         \* what analyze_single_stock returned
    \* ---- portfolio pipeline (PortfolioOrchestrator.recommend_portfolio)
    pf_pc,              \* position in recommend_portfolio
    pf_tickers,         \* the tickers argument ("None" as <<>> with pf_manual false)
    pf_manual,          \* whether a manual ticker list was given
    num_positions,      \* the num_positions argument
    selected_tickers,   \* the tickers to analyze
    pf_rationales,      \* ticker_rationales of the selection stage
    portfolio_analyses, \* the analyses collected by the loop
    pf_analyzed,        \* the tickers analyze_single_stock was called on
    pf_outcomes,        \* what each of those calls did
    pf_error,           \* the exception recommend_portfolio raised
    pf_result,          \* what recommend_portfolio returned
    \* ---- score blender (PortfolioOrchestrator._blend_scores)
    bl_pc,         \* position: inputs drawn, blended, labelled
    bl_results,    \* the agent_results argument of _blend_scores
    bl_weights,    \* self.agent_weights during the call, in hundredths
    bl_base,       \* base_score
    bl_multiplier, \* upside_multiplier after the cap and the floor, in hundredths
    bl_final,      \* final_score as returned
    bl_label,      \* what _generate_recommendation made of final_score
    \* ---- time-remaining estimator (PortfolioOrchestrator._estimate_time_remaining)
    eta_previous,      \* session_state._eta_previous, in milliseconds
    eta_hist,          \* mean of session_state.analysis_phase_times per phase, in milliseconds
    eta_analyses,      \* analyses started in this session
    eta_calls,         \* calls of _estimate_time_remaining in the running analysis
    eta_pct,           \* progress_pct of the latest of those calls
    eta_nondecreasing, \* whether progress_pct never decreased in the running analysis
    eta_emitted,       \* the estimates emitted in the running analysis, in milliseconds
    eta_display,       \* seconds shown by the latest call (0: the empty string)
    \* ---- performance analysis (PerformanceAnalysisEngineV2 and its DynamicTimeEstimator)
    pe_now,              \* time.time(), in milliseconds since the first engine was made
    pe_ticks,            \* advances of time.time() so far
    pe_engines,          \* the engines constructed so far
    pe_runs,             \* calls of analyze_performance_period started, all engines
    pe_overlap,          \* whether two calls were ever running at the same time
    pe_pc,               \* per engine: where analyze_performance_period stands
    pe_returned,         \* per engine: how the latest call returned
    pe_movements,        \* per engine: len(movements) of the running call
    pe_i,                \* per engine: the next index i of _analyze_movements_fast that reports progress
    current_phase,       \* per engine: time_estimator.current_phase
    phase_start_time,    \* per engine: time_estimator.phase_start_time
    total_start_time,    \* per engine: time_estimator.total_start_time
    phase_times,         \* per engine: time_estimator.phase_times
    historical_averages, \* per engine: time_estimator.historical_averages, in milliseconds
    timing_history,      \* 'averages' of timing_history.json; empty while the file is absent
    pe_before,           \* per engine: historical_averages as the latest _save_history found them
    pe_estimate,         \* the latest estimate_remaining call: arguments, state read, value
    \* ---- progress bar of one analyze_single_stock run (update_progress, _smooth_progress_interpolator)
    pr_pc,             \* where the main thread stands in analyze_single_stock
    pr_showing,        \* whether update_progress has left its lock and not yet written the bar
    pr_count,          \* agent_count
    pr_data,           \* how _gather_data came back
    current_progress,  \* _current_progress: pct in tenths of a percent, and stop
    ip_pc,             \* per interpolator thread: off, check, write, done
    ip_current_pct,    \* per interpolator thread: its current_pct, in tenths of a percent
    ip_i,              \* per interpolator thread: iterations of its loop so far
    progress_bar,      \* the value last written to the progress bar, in tenths of a percent
    pr_regressed       \* whether any write to the bar was lower than the one before it

rlVars == <<clock, last_api_call_time, rl_active, rl_pc, rl_wake, attempt,
            rl_outcome, rl_hist, rl_waits, rl_ncalls, rl_limit, prev_start, min_gap>>

selVars == <<sel_pc, openai_tickers, gemini_tickers, all_candidates,
             ticker_rationales, final_selection_rounds, unique_finalists,
             final_tickers, session_log, saved_logs, sel_calls, sel_fellback,
             sel_result>>

gatherVars == <<g_pc, g_tasks, g_pending, g_collected, data>>

analyzeVars == <<a_pc, agent_weights, a_override, original_weights,
                 a_gather, a_tasks, a_data, agent_results, a_invoked, a_returned,
                 progress_log, progress_phases, a_result>>

portfolioVars == <<pf_pc, pf_tickers, pf_manual, num_positions, selected_tickers,
                   pf_rationales, portfolio_analyses, pf_analyzed, pf_outcomes,
                   pf_error, pf_result>>

blendVars == <<bl_pc, bl_results, bl_weights, bl_base, bl_multiplier, bl_final, bl_label>>

etaVars == <<eta_previous, eta_hist, eta_analyses, eta_calls, eta_pct, eta_nondecreasing, eta_emitted, eta_display>>

perfVars == <<pe_now, pe_ticks, pe_engines, pe_runs, pe_overlap, pe_pc, pe_returned, pe_movements, pe_i, current_phase, phase_start_time, total_start_time, phase_times, historical_averages, timing_history, pe_before, pe_estimate>>

progressVars == <<pr_pc, pr_showing, pr_count, pr_data, current_progress, ip_pc, ip_current_pct, ip_i, progress_bar, pr_regressed>>

vars == <<rlVars, selVars, gatherVars, analyzeVars, portfolioVars, blendVars, etaVars, perfVars, progressVars>>

\* What the actions of one component leave unchanged.
rlOthers == <<selVars, gatherVars, analyzeVars, portfolioVars, blendVars, etaVars, perfVars, progressVars>>
selOthers == <<rlVars, gatherVars, analyzeVars, portfolioVars, blendVars, etaVars, perfVars, progressVars>>
gatherOthers == <<rlVars, selVars, analyzeVars, portfolioVars, blendVars, etaVars, perfVars, progressVars>>
analyzeOthers == <<rlVars, selVars, gatherVars, portfolioVars, blendVars, etaVars, perfVars, progressVars>>
portfolioOthers == <<rlVars, selVars, gatherVars, analyzeVars, blendVars, etaVars, perfVars, progressVars>>
blendOthers == <<rlVars, selVars, gatherVars, analyzeVars, portfolioVars, etaVars, perfVars, progressVars>>
etaOthers == <<rlVars, selVars, gatherVars, analyzeVars, portfolioVars, blendVars, perfVars, progressVars>>
perfOthers == <<rlVars, selVars, gatherVars, analyzeVars, portfolioVars, blendVars, etaVars, progressVars>>
progressOthers == <<rlVars, selVars, gatherVars, analyzeVars, portfolioVars, blendVars, etaVars, perfVars>>

(***************************************************************************)
(* Generic helpers                                                         *)
(***************************************************************************)
Min2(a, b) == IF a <= b THEN a ELSE b
Max2(a, b) == IF a >= b THEN a ELSE b
Range(s) == {s[i] : i \in 1..Len(s)}
Take(s, n) == SubSeq(s, 1, Min2(n, Len(s)))

(***************************************************************************)
(* Rate-limited caller                                                     *)
(***************************************************************************)
Threads == {"t1", "t2"}

\* self.min_delay_between_calls = 0.5 (seconds), in tenths of a second
MinDelayBetweenCalls == 5
\* max_retries = 3
MaxRetries == 3
\* wait_time = (attempt + 1) * 10 (seconds), in tenths of a second
BackoffStep == 100

\* Calls of _rate_limited_api_call one thread makes in a run of the model.
MaxCalls == 2
\* How long api_func may take, and how long a thread may pause between calls.
CallDurations == {0, 3}
IdleGaps == {0, 2, 5}
\* What api_func may do: return, raise a throttling error ('429' or
\* 'rate_limit' in the message), raise any other error.
ApiOutcomes == {"ok", "throttle", "error"}

RLInitCommon ==
    /\ clock = MinDelayBetweenCalls
    /\ last_api_call_time = 0
    /\ rl_pc = [t \in Threads |-> "idle"]
    /\ rl_wake = [t \in Threads |-> 0]
    /\ attempt = [t \in Threads |-> 0]
    /\ rl_outcome = [t \in Threads |-> "none"]
    /\ rl_hist = [t \in Threads |-> <<>>]
    /\ rl_waits = [t \in Threads |-> <<>>]
    /\ rl_ncalls = [t \in Threads |-> 0]
    /\ prev_start = -1
    /\ min_gap = MinDelayBetweenCalls

\* The component is not in use.
RLOff == RLInitCommon /\ rl_active = {} /\ rl_limit = 0

\* if time_since_last_call < self.min_delay_between_calls: sleep_time = ...
SleepTime(now, last) ==
    IF now - last < MinDelayBetweenCalls
    THEN MinDelayBetweenCalls - (now - last)
    ELSE 0

\* Entry of _rate_limited_api_call: read the clock and last_api_call_time,
\* and sleep when the last successful call is too recent.
RLStart(t, gap) ==
    /\ t \in rl_active
    /\ rl_pc[t] \in {"idle", "returned", "raised"}
    /\ rl_ncalls[t] < rl_limit
    /\ clock' = clock + gap
    /\ rl_ncalls' = [rl_ncalls EXCEPT ![t] = @ + 1]
    /\ attempt' = [attempt EXCEPT ![t] = 0]
    /\ rl_hist' = [rl_hist EXCEPT ![t] = <<>>]
    /\ rl_waits' = [rl_waits EXCEPT ![t] = <<>>]
    /\ LET sleep_time == SleepTime(clock', last_api_call_time) IN
        IF sleep_time > 0
        THEN /\ rl_pc' = [rl_pc EXCEPT ![t] = "sleep"]
             /\ rl_wake' = [rl_wake EXCEPT ![t] = clock' + sleep_time]
        ELSE /\ rl_pc' = [rl_pc EXCEPT ![t] = "ready"]
             /\ UNCHANGED rl_wake
    /\ UNCHANGED <<last_api_call_time, rl_active, rl_outcome, rl_limit, prev_start, min_gap, rlOthers>>

\* time.sleep returns (the rate-limiting sleep or a back-off sleep).
RLWake(t) ==
    /\ t \in rl_active
    /\ rl_pc[t] = "sleep"
    /\ clock >= rl_wake[t]
    /\ rl_pc' = [rl_pc EXCEPT ![t] = "ready"]
    /\ UNCHANGED <<clock, last_api_call_time, rl_active, rl_wake, attempt,
                   rl_outcome, rl_hist, rl_waits, rl_ncalls, rl_limit, prev_start, min_gap,
                   rlOthers>>

\* result = api_func(*args, **kwargs): the invocation begins.
RLInvoke(t, outcome, dur) ==
    /\ t \in rl_active
    /\ rl_pc[t] = "ready"
    /\ rl_pc' = [rl_pc EXCEPT ![t] = "calling"]
    /\ rl_outcome' = [rl_outcome EXCEPT ![t] = outcome]
    /\ rl_hist' = [rl_hist EXCEPT ![t] = Append(@, outcome)]
    /\ rl_wake' = [rl_wake EXCEPT ![t] = clock + dur]
    /\ prev_start' = clock
    /\ min_gap' = IF prev_start = -1 THEN min_gap
                  ELSE Min2(min_gap, clock - prev_start)
    /\ UNCHANGED <<clock, last_api_call_time, rl_active, attempt, rl_waits, rl_ncalls, rl_limit, rlOthers>>

\* wait_time = (attempt + 1) * 10
WaitTime(a) == (a + 1) * BackoffStep

\* if attempt < max_retries - 1: sleep and retry, else: raise
RetryAllowed(a) == a < MaxRetries - 1

\* api_func returns or raises: the body of the retry loop after the call.
RLComplete(t) ==
    /\ t \in rl_active
    /\ rl_pc[t] = "calling"
    /\ clock >= rl_wake[t]
    /\ rl_outcome' = [rl_outcome EXCEPT ![t] = "none"]
    /\ CASE rl_outcome[t] = "ok" ->
              /\ last_api_call_time' = clock
              /\ rl_pc' = [rl_pc EXCEPT ![t] = "returned"]
              /\ UNCHANGED <<rl_wake, attempt, rl_waits>>
         [] rl_outcome[t] = "throttle" /\ RetryAllowed(attempt[t]) ->
              /\ rl_waits' = [rl_waits EXCEPT ![t] = Append(@, WaitTime(attempt[t]))]
              /\ rl_wake' = [rl_wake EXCEPT ![t] = clock + WaitTime(attempt[t])]
              /\ attempt' = [attempt EXCEPT ![t] = @ + 1]
              /\ rl_pc' = [rl_pc EXCEPT ![t] = "sleep"]
              /\ UNCHANGED last_api_call_time
         [] OTHER ->
              /\ rl_pc' = [rl_pc EXCEPT ![t] = "raised"]
              /\ UNCHANGED <<last_api_call_time, rl_wake, attempt, rl_waits>>
    /\ UNCHANGED <<clock, rl_active, rl_hist, rl_ncalls, rl_limit, prev_start, min_gap, rlOthers>>

\* Time passes until a sleeping or calling thread is due.
RLAdvance ==
    /\ \E t \in rl_active :
        /\ rl_pc[t] \in {"sleep", "calling"}
        /\ rl_wake[t] > clock
        /\ clock' = rl_wake[t]
    /\ UNCHANGED <<last_api_call_time, rl_active, rl_pc, rl_wake, attempt,
                   rl_outcome, rl_hist, rl_waits, rl_ncalls, rl_limit, prev_start, min_gap,
                   rlOthers>>

RLNext ==
    \/ \E t \in Threads, gap \in IdleGaps : RLStart(t, gap)
    \/ \E t \in Threads : RLWake(t)
    \/ \E t \in Threads, o \in ApiOutcomes, d \in CallDurations : RLInvoke(t, o, d)
    \/ \E t \in Threads : RLComplete(t)
    \/ RLAdvance

(***************************************************************************)
(* AI candidate selector                                                   *)
(***************************************************************************)
\* The [:5] of _openai_select_top_5 and _openai_narrow_to_5, and the
\* "> 5" of the consolidation.
TargetCount == 5

\* num_tickers: select_portfolio_tickers passes 20; the model asks for fewer.
NumTickers == 4

\* The head of the fallback list of _openai_select_tickers.
OpenAIFallback == <<"AAPL", "MSFT", "GOOGL", "AMZN", "NVDA", "META">>
\* The head of the fallback list of _gemini_select_tickers.
GeminiFallback == <<"COST", "NFLX", "AMD", "ORCL", "INTC", "QCOM">>

\* JSON arrays the two selectors' LLMs may answer with.
OpenAIResponses == {<<"AAPL", "NVDA", "PLTR", "CRWD">>}
GeminiResponses == {<<"PLTR", "AMD", "aapl", "COST", "NFLX">>}
\* JSON arrays the narrowing rounds may answer with: short, exact, too long,
\* and one naming a ticker that is no candidate.
RoundResponses ==
    { <<"AAPL", "MSFT", "GOOGL">>,
      <<"AAPL", "MSFT", "GOOGL", "AMZN", "COST">>,
      <<"NFLX", "AMD", "ORCL", "AAPL", "MSFT", "GOOGL">>,
      <<"TSLA", "AAPL", "MSFT", "GOOGL", "AMZN">> }
\* JSON arrays the final narrowing call may answer with.
NarrowResponses ==
    { <<"AAPL", "MSFT", "GOOGL", "AMZN", "COST">>,
      <<"AAPL", "NFLX">> }

\* Every ticker of the model, in a fixed order.
TickerOrder ==
    <<"AAPL", "MSFT", "GOOGL", "AMZN", "NVDA", "META", "COST", "NFLX", "AMD",
      "ORCL", "INTC", "QCOM", "PLTR", "CRWD", "aapl", "TSLA">>

Reverse(s) == [i \in 1..Len(s) |-> s[Len(s) + 1 - i]]

\* list(set(...)): the iteration order of a Python set of strings is
\* arbitrary.  Two orders are modelled.
ListOrders == {"asc", "desc"}
ListOfSet(S, ord) ==
    LET asc == SelectSeq(TickerOrder, LAMBDA t : t \in S)
    IN IF ord = "asc" THEN asc ELSE Reverse(asc)

SelOff ==
    /\ sel_pc = "off"
    /\ openai_tickers = <<>>
    /\ gemini_tickers = <<>>
    /\ all_candidates = <<>>
    /\ ticker_rationales = <<>>
    /\ final_selection_rounds = <<>>
    /\ unique_finalists = <<>>
    /\ final_tickers = <<>>
    /\ session_log = <<>>
    /\ saved_logs = <<>>
    /\ sel_calls = {}
    /\ sel_fellback = {}
    /\ sel_result = "none"

\* An LLM call: where it is made, which provider, and whether it is made
\* through _rate_limited_api_call.
LLMCall(site, provider, wrapped) ==
    [site |-> site, provider |-> provider, rate_limited |-> wrapped]

\* _openai_select_tickers: (tickers, log)
OpenAISelectTickers(ok, resp) ==
    IF ok THEN [tickers |-> resp, log |-> [model |-> "o3", tickers |-> resp]]
    ELSE [tickers |-> Take(OpenAIFallback, NumTickers),
          log |-> [error |-> "e", fallback |-> TRUE]]

\* _gemini_select_tickers: (tickers, log)
GeminiSelectTickers(ok, resp) ==
    IF ok THEN [tickers |-> resp, log |-> [model |-> "gemini-2.5-pro", tickers |-> resp]]
    ELSE [tickers |-> Take(GeminiFallback, NumTickers),
          log |-> [error |-> "e", fallback |-> TRUE]]

\* Stage 1: OpenAI o3 selects the tickers; the stage is logged.
SelOpenAI(ok, resp) ==
    /\ sel_pc = "openai"
    /\ LET r == OpenAISelectTickers(ok, resp) IN
        /\ openai_tickers' = r.tickers
        /\ session_log' = Append(session_log,
              [stage |-> "openai_initial_selection", tickers |-> r.tickers, log |-> r.log])
    /\ sel_calls' = sel_calls \cup {LLMCall("openai_select", "openai", TRUE)}
    /\ sel_fellback' = IF ok THEN sel_fellback ELSE sel_fellback \cup {<<"openai", "">>}
    /\ sel_pc' = "gemini"
    /\ UNCHANGED <<gemini_tickers, all_candidates, ticker_rationales,
                   final_selection_rounds, unique_finalists, final_tickers,
                   saved_logs, sel_result, selOthers>>

\* Stage 2: Gemini selects the tickers; the stage is logged.  The Gemini
\* call is made directly on the model, not through _rate_limited_api_call.
SelGemini(ok, resp) ==
    /\ sel_pc = "gemini"
    /\ LET r == GeminiSelectTickers(ok, resp) IN
        /\ gemini_tickers' = r.tickers
        /\ session_log' = Append(session_log,
              [stage |-> "gemini_initial_selection", tickers |-> r.tickers, log |-> r.log])
    /\ sel_calls' = sel_calls \cup {LLMCall("gemini_select", "gemini", FALSE)}
    /\ sel_fellback' = IF ok THEN sel_fellback ELSE sel_fellback \cup {<<"gemini", "">>}
    /\ sel_pc' = "aggregate"
    /\ UNCHANGED <<openai_tickers, all_candidates, ticker_rationales,
                   final_selection_rounds, unique_finalists, final_tickers,
                   saved_logs, sel_result, selOthers>>

\* Stage 3: all_candidates = list(set(openai_tickers + gemini_tickers))
SelAggregate(ord) ==
    /\ sel_pc = "aggregate"
    /\ all_candidates' = ListOfSet(Range(openai_tickers \o gemini_tickers), ord)
    /\ session_log' = Append(session_log,
          [stage |-> "aggregation", unique_tickers |-> all_candidates',
           count |-> Len(all_candidates')])
    /\ sel_pc' = "rationale"
    /\ UNCHANGED <<openai_tickers, gemini_tickers, ticker_rationales,
                   final_selection_rounds, unique_finalists, final_tickers,
                   saved_logs, sel_calls, sel_fellback, sel_result, selOthers>>

\* _generate_ticker_rationale: the LLM's text, or the templated text.
GenerateTickerRationale(ok) == IF ok THEN "llm_rationale" ELSE "template_rationale"

\* The sets of tickers whose rationale call may fail in one run.
RationaleFailures(cands) ==
    {{}, cands} \cup {{t} : t \in cands \cap {"AAPL", "PLTR"}}

\* Stage 4: one rationale per candidate; the stage is logged.
SelRationales(failing) ==
    /\ sel_pc = "rationale"
    /\ ticker_rationales' =
          [t \in Range(all_candidates) |-> GenerateTickerRationale(t \notin failing)]
    /\ session_log' = Append(session_log,
          [stage |-> "rationale_generation", ticker_rationales |-> ticker_rationales'])
    /\ sel_calls' = sel_calls \cup
          (IF all_candidates = <<>> THEN {} ELSE {LLMCall("rationale", "openai", TRUE)})
    /\ sel_fellback' = sel_fellback \cup {<<"rationale", t>> : t \in failing}
    /\ sel_pc' = "rounds"
    /\ UNCHANGED <<openai_tickers, gemini_tickers, all_candidates,
                   final_selection_rounds, unique_finalists, final_tickers,
                   saved_logs, sel_result, selOthers>>

RoundName(n) == CASE n = 1 -> "1" [] n = 2 -> "2" [] OTHER -> "3"

\* _openai_select_top_5: top_5[:5] of the answer, or candidates[:5].
OpenAISelectTop5(ok, resp, candidates) ==
    IF ok THEN Take(resp, TargetCount) ELSE Take(candidates, TargetCount)

\* Stage 5: one of the three narrowing rounds.  After the third the stage
\* is logged.
SelRound(ok, resp) ==
    /\ sel_pc = "rounds"
    /\ LET n == Len(final_selection_rounds) + 1
           rounds == Append(final_selection_rounds,
                            OpenAISelectTop5(ok, resp, all_candidates))
       IN
        /\ final_selection_rounds' = rounds
        /\ sel_fellback' = IF ok THEN sel_fellback
                           ELSE sel_fellback \cup {<<"round", RoundName(n)>>}
        /\ IF n = 3
           THEN /\ session_log' = Append(session_log,
                      [stage |-> "final_selection_rounds", round_1 |-> rounds[1],
                       round_2 |-> rounds[2], round_3 |-> rounds[3]])
                /\ sel_pc' = "consolidate"
           ELSE UNCHANGED <<session_log, sel_pc>>
    /\ sel_calls' = sel_calls \cup {LLMCall("select_top_5", "openai", TRUE)}
    /\ UNCHANGED <<openai_tickers, gemini_tickers, all_candidates, ticker_rationales,
                   unique_finalists, final_tickers, saved_logs, sel_result, selOthers>>

\* list(set(round_1 + round_2 + round_3))
UniqueFinalists(rounds, ord) ==
    ListOfSet(Range(rounds[1] \o rounds[2] \o rounds[3]), ord)

\* if len(unique_finalists) > 5: the extra narrowing call is made
NeedsNarrowing(finalists) == Len(finalists) > TargetCount

\* _openai_narrow_to_5: final_5[:5] of the answer, or finalists[:5].
OpenAINarrowTo5(ok, resp, finalists) ==
    IF ok THEN Take(resp, TargetCount) ELSE Take(finalists, TargetCount)

\* final_tickers of the consolidation, given what the narrowing call does.
ConsolidatedTickers(finalists, ok, resp) ==
    IF NeedsNarrowing(finalists)
    THEN OpenAINarrowTo5(ok, resp, finalists)
    ELSE finalists

\* Stage 6: consolidation; the stage is logged.  _openai_narrow_to_5 reads
\* rationales[ticker] for every finalist before its try block: a finalist
\* without a rationale makes select_portfolio_tickers raise KeyError.
SelConsolidate(ok, resp, ord) ==
    /\ sel_pc = "consolidate"
    /\ LET finalists == UniqueFinalists(final_selection_rounds, ord)
           narrowing == NeedsNarrowing(finalists)
           keyerror == narrowing /\ ~(Range(finalists) \subseteq DOMAIN ticker_rationales)
       IN
        /\ unique_finalists' = finalists
        /\ sel_calls' = IF narrowing /\ ~keyerror
                        THEN sel_calls \cup {LLMCall("narrow_to_5", "openai", TRUE)}
                        ELSE sel_calls
        /\ sel_fellback' = IF narrowing /\ ~keyerror /\ ~ok
                           THEN sel_fellback \cup {<<"narrow", "">>}
                           ELSE sel_fellback
        /\ IF keyerror
           THEN /\ sel_pc' = "raised"
                /\ UNCHANGED <<final_tickers, session_log>>
           ELSE /\ final_tickers' = ConsolidatedTickers(finalists, ok, resp)
                /\ session_log' = Append(session_log,
                      [stage |-> "final_consolidation",
                       unique_finalists |-> finalists,
                       final_5 |-> final_tickers'])
                /\ sel_pc' = "save"
    /\ UNCHANGED <<openai_tickers, gemini_tickers, all_candidates,
                   ticker_rationales, final_selection_rounds, saved_logs,
                   sel_result, selOthers>>

\* json.dump(session_log, f): the session log is written.
SelSave ==
    /\ sel_pc = "save"
    /\ saved_logs' = Append(saved_logs, session_log)
    /\ sel_pc' = "return"
    /\ UNCHANGED <<openai_tickers, gemini_tickers, all_candidates,
                   ticker_rationales, final_selection_rounds, unique_finalists,
                   final_tickers, session_log, sel_calls, sel_fellback, sel_result,
                   selOthers>>

\* The return statement: {t: ticker_rationales[t] for t in final_tickers}
\* raises KeyError for a final ticker that has no rationale.
SelReturn ==
    /\ sel_pc = "return"
    /\ IF Range(final_tickers) \subseteq DOMAIN ticker_rationales
       THEN /\ sel_pc' = "done"
            /\ sel_result' = [final_tickers |-> final_tickers,
                              ticker_rationales |->
                                  [t \in Range(final_tickers) |-> ticker_rationales[t]],
                              all_candidates |-> all_candidates]
       ELSE /\ sel_pc' = "raised"
            /\ UNCHANGED sel_result
    /\ UNCHANGED <<openai_tickers, gemini_tickers, all_candidates,
                   ticker_rationales, final_selection_rounds, unique_finalists,
                   final_tickers, session_log, saved_logs, sel_calls, sel_fellback,
                   selOthers>>

NextSelect ==
    \/ \E r \in OpenAIResponses : SelOpenAI(TRUE, r)
    \/ SelOpenAI(FALSE, <<>>)
    \/ \E r \in GeminiResponses : SelGemini(TRUE, r)
    \/ SelGemini(FALSE, <<>>)
    \/ \E ord \in ListOrders : SelAggregate(ord)
    \/ \E f \in RationaleFailures(Range(all_candidates)) : SelRationales(f)
    \/ \E r \in RoundResponses : SelRound(TRUE, r)
    \/ SelRound(FALSE, <<>>)
    \/ \E r \in NarrowResponses, ord \in ListOrders : SelConsolidate(TRUE, r, ord)
    \/ \E ord \in ListOrders : SelConsolidate(FALSE, <<>>, ord)
    \/ SelSave
    \/ SelReturn


(***************************************************************************)
(* Parallel data fetcher                                                   *)
(***************************************************************************)
\* Python dicts are functions from keys to values.
EmptyDict == <<>>
DictGet(d, k, default) == IF k \in DOMAIN d THEN d[k] ELSE default
DictPut(d, k, v) == (k :> v) @@ d
DictPop(d, k) == [x \in DOMAIN d \ {k} |-> d[x]]
\* bool(d) of a dict
Truthy(d) == DOMAIN d # {}

\* The three tasks submitted to the pool, in submission order.
TaskNames == <<"fundamentals", "price_history", "benchmark">>

\* What a task may do.  Fundamentals: raise, return {}, return data of an
\* ordinary source, return data whose source is 'comprehensive_enhanced'.
\* Price history: raise, return None, return an empty table, return rows.
\* Benchmark (_create_benchmark_data): raise, return the synthetic series.
FundamentalsOutcomes == {"raise", "empty", "basic", "enhanced"}
PriceOutcomes == {"raise", "none", "empty", "live"}
BenchmarkOutcomes == {"raise", "series"}

BasicFundamentals == [source |-> "yahoo", price |-> "price", name |-> "name"]
EnhancedFundamentals ==
    [source |-> "comprehensive_enhanced", price |-> "price", name |-> "name"]

\* The dict _gather_data starts from.
NewData == [ticker |-> "TICKER", analysis_date |-> "date"]

\* future.result() of a task that did not raise.
TaskResult(name, outcome) ==
    CASE name = "fundamentals" ->
            (CASE outcome = "empty" -> EmptyDict
               [] outcome = "basic" -> BasicFundamentals
               [] OTHER -> EnhancedFundamentals)
      [] name = "price_history" ->
            (CASE outcome = "none" -> "None"
               [] outcome = "empty" -> "empty_frame"
               [] OTHER -> "live_prices")
      [] OTHER -> "benchmark_series"

\* A loop body whose except branch abandons what was collected before the
\* failure and keeps only the failed task's default.
CollectFieldAborting(d, name, outcome) ==
    IF outcome = "raise"
    THEN CASE name = "fundamentals" -> DictPut(NewData, "fundamentals", EmptyDict)
           [] name = "price_history" -> DictPut(NewData, "_price_history_raw", "None")
           [] OTHER -> DictPut(NewData, "benchmark_history", "empty_frame")
    ELSE CASE name = "fundamentals" ->
                DictPut(d, "fundamentals", TaskResult(name, outcome))
           [] name = "price_history" ->
                DictPut(d, "_price_history_raw", TaskResult(name, outcome))
           [] OTHER -> DictPut(d, "benchmark_history", TaskResult(name, outcome))

\* The body of the as_completed loop for one future: the result is stored
\* under the task's key, and the except branch stores the empty default.
CollectField(d, name, outcome) ==
    IF outcome = "raise"
    THEN CASE name = "fundamentals" -> DictPut(d, "fundamentals", EmptyDict)
           [] name = "price_history" -> DictPut(d, "_price_history_raw", "None")
           [] OTHER -> DictPut(d, "benchmark_history", "empty_frame")
    ELSE CASE name = "fundamentals" ->
                DictPut(d, "fundamentals", TaskResult(name, outcome))
           [] name = "price_history" ->
                DictPut(d, "_price_history_raw", TaskResult(name, outcome))
           [] OTHER -> DictPut(d, "benchmark_history", TaskResult(name, outcome))

\* _extract_price_history_from_fundamentals: 252 synthetic rows.
ExtractPriceHistoryFromFundamentals(fundamentals) == "synthetic_prices"

\* A price-history step that only looks at the price-history call.
ProcessPriceHistoryRawOnly(d) ==
    IF DictGet(d, "_price_history_raw", "None") # "None"
    THEN d["_price_history_raw"]
    ELSE "empty_frame"

\* "Process price history (may depend on fundamentals result)"
ProcessPriceHistory(d) ==
    LET fundamentals == DictGet(d, "fundamentals", EmptyDict) IN
    IF DictGet(fundamentals, "source", "None") = "comprehensive_enhanced"
    THEN ExtractPriceHistoryFromFundamentals(fundamentals)
    ELSE IF DictGet(d, "_price_history_raw", "None") # "None"
    THEN d["_price_history_raw"]
    ELSE IF Truthy(fundamentals)
    THEN ExtractPriceHistoryFromFundamentals(fundamentals)
    ELSE "empty_frame"

\* The statements of _gather_data after the pool has been shut down.
FinishData(d, existing_portfolio) ==
    LET d1 == DictPop(DictPut(d, "price_history", ProcessPriceHistory(d)),
                       "_price_history_raw")
        d2 == IF "benchmark_history" \notin DOMAIN d1
              THEN DictPut(d1, "benchmark_history", "empty_frame")
              ELSE d1
    IN DictPut(d2, "existing_portfolio", existing_portfolio)

RECURSIVE CollectAll(_, _, _)
\* The as_completed loop, the futures yielded in the order of names.
CollectAll(d, names, tasks) ==
    IF names = <<>> THEN d
    ELSE CollectAll(CollectField(d, Head(names), tasks[Head(names)]),
                    Tail(names), tasks)

\* _gather_data for given outcomes of the tasks, the futures yielded in
\* submission order.
GatherData(tasks, existing_portfolio) ==
    FinishData(CollectAll(NewData, TaskNames, tasks), existing_portfolio)

Tasks(fo, po, bo) == [fundamentals |-> fo, price_history |-> po, benchmark |-> bo]

GatherOff ==
    /\ g_pc = "off"
    /\ g_tasks = Tasks("raise", "raise", "raise")
    /\ g_pending = {}
    /\ g_collected = <<>>
    /\ data = EmptyDict

\* The three tasks are submitted to the pool.
GatherSubmit(fo, po, bo) ==
    /\ g_pc = "submit"
    /\ g_tasks' = Tasks(fo, po, bo)
    /\ g_pending' = Range(TaskNames)
    /\ data' = NewData
    /\ g_pc' = "collect"
    /\ UNCHANGED <<g_collected, gatherOthers>>

\* as_completed yields the future of task name; its result is collected.
GatherCollect(name) ==
    /\ g_pc = "collect"
    /\ name \in g_pending
    /\ data' = CollectField(data, name, g_tasks[name])
    /\ g_pending' = g_pending \ {name}
    /\ g_collected' = Append(g_collected, name)
    /\ UNCHANGED <<g_pc, g_tasks, gatherOthers>>

\* All futures are collected: the price history is processed and the
\* bundle returned.
GatherFinish(existing_portfolio) ==
    /\ g_pc = "collect"
    /\ g_pending = {}
    /\ data' = FinishData(data, existing_portfolio)
    /\ g_pc' = "done"
    /\ UNCHANGED <<g_tasks, g_pending, g_collected, gatherOthers>>

ExistingPortfolios == {<<>>, <<"MSFT">>}

NextGather ==
    \/ \E fo \in FundamentalsOutcomes, po \in PriceOutcomes, bo \in BenchmarkOutcomes :
          GatherSubmit(fo, po, bo)
    \/ \E name \in Range(TaskNames) : GatherCollect(name)
    \/ \E e \in ExistingPortfolios : GatherFinish(e)


(***************************************************************************)
(* Per-ticker analysis: agent runner and score blender                     *)
(***************************************************************************)
RECURSIVE GCD(_, _)
GCD(a, b) == IF b = 0 THEN a ELSE GCD(b, a % b)

\* Scores are kept exact, as fractions in lowest terms with a positive
\* denominator (n >= 0, d > 0).
Rat(n, d) == [num |-> n \div GCD(n, d), den |-> d \div GCD(n, d)]
RatGE(r, k) == r.num >= k * r.den
RatLess(a, b) == a.num * b.den < b.num * a.den

\* self.agents, in registration order.
AgentNames == <<"value_agent", "growth_momentum_agent", "macro_regime_agent",
                "risk_agent", "sentiment_agent">>

\* The weights of the constructor, in hundredths.
DefaultWeights ==
    [value_agent |-> 20, growth_momentum_agent |-> 40, macro_regime_agent |-> 10,
     risk_agent |-> 15, sentiment_agent |-> 15]

\* weight_mapping: simplified name -> agent name; other names map to
\* themselves.
WeightMapping(simplified_name) ==
    CASE simplified_name = "value" -> "value_agent"
      [] simplified_name = "growth_momentum" -> "growth_momentum_agent"
      [] simplified_name = "macro_regime" -> "macro_regime_agent"
      [] simplified_name = "risk" -> "risk_agent"
      [] simplified_name = "sentiment" -> "sentiment_agent"
      [] OTHER -> simplified_name

\* "Apply weights": the overrides that name a known agent replace its weight.
ApplyWeights(weights, overrides) ==
    [a \in DOMAIN weights |->
        IF \E n \in DOMAIN overrides : WeightMapping(n) = a
        THEN overrides[CHOOSE n \in DOMAIN overrides : WeightMapping(n) = a]
        ELSE weights[a]]

\* The agent_weights arguments tried: none, a full override, and an
\* override of one agent together with an unknown name.
OverrideChoices == {"none", "full", "partial"}
WeightOverride(choice) ==
    CASE choice = "full" ->
            [value |-> 50, growth_momentum |-> 0, macro_regime |-> 0,
             risk |-> 50, sentiment |-> 0]
      [] choice = "partial" -> [growth_momentum |-> 60, momentum |-> 10]
      [] OTHER -> EmptyDict

\* Python None where a score is expected.
NoneScore == -1
\* The neutral score.
NeutralScore == 50

\* What an agent's analyze may do: raise, return a result whose score is
\* None, return a result without a score, return a result with a score.
AgentScores == {0, 85}
AgentOutcomes ==
    {[kind |-> k, score |-> NoneScore] : k \in {"raise", "null", "missing"}}
        \cup {[kind |-> "score", score |-> sc] : sc \in AgentScores}

\* The dict an agent's analyze returns.
AgentReturn(outcome) ==
    IF outcome.kind = "missing"
    THEN [rationale |-> "agent rationale", details |-> "agent details"]
    ELSE [score |-> outcome.score, rationale |-> "agent rationale",
          details |-> "agent details"]

\* score = result.get('score'); if score is None: result['score'] = 50
Coalesce(result) ==
    IF DictGet(result, "score", NoneScore) = NoneScore
    THEN DictPut(result, "score", NeutralScore)
    ELSE result

\* x or 50
OrFifty(x) == IF x = NoneScore \/ x = 0 THEN NeutralScore ELSE x

\* The entry substituted for an agent that raised.
FailedEntry ==
    [score |-> NeutralScore, rationale |-> "Analysis failed: agent error",
     details |-> EmptyDict]

\* An agent runner that records nothing for an agent that raised.
StoreAgentResultSkipping(results, name, outcome) ==
    IF outcome.kind = "raise"
    THEN results
    ELSE DictPut(results, name, Coalesce(AgentReturn(outcome)))

\* The try/except of the agent loop: agent_results after agent name did
\* outcome.
StoreAgentResult(results, name, outcome) ==
    IF outcome.kind = "raise"
    THEN DictPut(results, name, FailedEntry)
    ELSE DictPut(results, name, Coalesce(AgentReturn(outcome)))

\* int(agent_start_pct) and int(agent_end_pct) of the count-th agent.
AgentStartPct(count) == 42 + ((count - 1) * 56) \div Len(AgentNames)
AgentEndPct(count) == 42 + (count * 56) \div Len(AgentNames)

RECURSIVE WeightedSum(_, _, _)
\* The sums of the "base weighted score" loop over the agents names:
\* <<total_score, total_weight>>.
WeightedSum(names, results, weights) ==
    IF names = <<>> THEN <<0, 0>>
    ELSE LET rest == WeightedSum(Tail(names), results, weights)
             a == Head(names)
         IN IF a \in DOMAIN weights /\ a \in DOMAIN results
            THEN <<rest[1] + OrFifty(DictGet(results[a], "score", NoneScore)) * weights[a],
                   rest[2] + weights[a]>>
            ELSE rest

BaseScore(results, weights) ==
    LET sums == WeightedSum(AgentNames, results, weights) IN
    IF sums[2] > 0 THEN Rat(sums[1], sums[2]) ELSE Rat(NeutralScore, 1)

\* The four upside factors, in hundredths.
GrowthFactor(results) ==
    IF "growth_momentum_agent" \notin DOMAIN results THEN 0
    ELSE LET growth_score == DictGet(results["growth_momentum_agent"], "score", NeutralScore)
         IN CASE growth_score >= 80 -> 15
              [] growth_score >= 70 /\ growth_score < 80 -> 10
              [] growth_score >= 60 /\ growth_score < 70 -> 5
              [] growth_score < 40 -> -5
              [] OTHER -> 0

\* A sentiment factor that grants the larger boost from 65 on.
SentimentFactorOneTier(results) ==
    IF "sentiment_agent" \notin DOMAIN results THEN 0
    ELSE IF OrFifty(DictGet(results["sentiment_agent"], "score", NoneScore)) >= 65
         THEN 8 ELSE 0

SentimentFactor(results) ==
    IF "sentiment_agent" \notin DOMAIN results THEN 0
    ELSE LET sentiment_score ==
                 OrFifty(DictGet(results["sentiment_agent"], "score", NoneScore))
         IN CASE sentiment_score >= 75 -> 8
              [] sentiment_score >= 65 /\ sentiment_score < 75 -> 5
              [] OTHER -> 0

ValueFactor(results) ==
    IF "value_agent" \notin DOMAIN results THEN 0
    ELSE IF DictGet(results["value_agent"], "score", NeutralScore) >= 75 THEN 5 ELSE 0

RiskFactor(results) ==
    IF "risk_agent" \notin DOMAIN results THEN 0
    ELSE IF DictGet(results["risk_agent"], "score", NeutralScore) < 30 THEN -10 ELSE 0

\* A multiplier in which the lower tiers of a fired tier fire too (if for
\* elif: 15 + 10 + 5 and 8 + 5), and which is neither capped nor floored.
UpsideMultiplierStacking(results) ==
    100 + GrowthFactor(results) + SentimentFactor(results)
        + ValueFactor(results) + RiskFactor(results)
        + (IF GrowthFactor(results) = 15 THEN 15 ELSE 0)
        + (IF SentimentFactor(results) = 8 THEN 5 ELSE 0)

\* upside_multiplier after the cap and the floor, in hundredths.
UpsideMultiplier(results) ==
    Max2(Min2(100 + GrowthFactor(results) + SentimentFactor(results)
                  + ValueFactor(results) + RiskFactor(results), 135), 85)

\* _blend_scores: base_score * upside_multiplier.
BlendScores(results, weights) ==
    LET base_score == BaseScore(results, weights) IN
    Rat(base_score.num * UpsideMultiplier(results), base_score.den * 100)

\* _generate_recommendation
GenerateRecommendation(score) ==
    CASE RatGE(score, 80) -> "STRONG BUY"
      [] ~RatGE(score, 80) /\ RatGE(score, 70) -> "BUY"
      [] ~RatGE(score, 70) /\ RatGE(score, 60) -> "HOLD"
      [] ~RatGE(score, 60) /\ RatGE(score, 40) -> "WEAK HOLD"
      [] OTHER -> "SELL"

\* The result returned on the two error paths.
ErrorResult(ticker, error) ==
    [ticker |-> ticker, error |-> error, fundamentals |-> EmptyDict,
     price_history |-> EmptyDict, agent_results |-> EmptyDict,
     agent_scores |-> EmptyDict, agent_rationales |-> EmptyDict,
     blended_score |-> Rat(0, 1), final_score |-> Rat(0, 1), eligible |-> FALSE]

\* The result returned after the agents have run.
ScoredResult(ticker, results, weights, d) ==
    LET blended_score == BlendScores(results, weights) IN
    [ticker |-> ticker, analysis_date |-> "date", agent_results |-> results,
     agent_scores |->
        [a \in DOMAIN results |-> OrFifty(DictGet(results[a], "score", NoneScore))],
     agent_rationales |->
        [a \in DOMAIN results |->
            DictGet(results[a], "rationale", "Analysis not available")],
     blended_score |-> blended_score, final_score |-> blended_score,
     eligible |-> TRUE,
     recommendation |-> GenerateRecommendation(blended_score),
     rationale |-> "comprehensive rationale",
     fundamentals |-> DictGet(d, "fundamentals", EmptyDict),
     price_history |-> DictGet(d, "price_history", EmptyDict)]

\* A no-data test that lets every bundle through.
HasNoDataNever(d) == FALSE

\* A test that gives up only when the bundle holds no fundamentals, no
\* price rows and no benchmark.
HasNoDataAtAll(d) ==
    \/ ~Truthy(d)
    \/ /\ ~Truthy(DictGet(d, "fundamentals", EmptyDict))
       /\ DictGet(d, "price_history", "empty_frame") = "empty_frame"
       /\ DictGet(d, "benchmark_history", "empty_frame") = "empty_frame"

\* if not data or not data.get('fundamentals')
HasNoData(d) == ~Truthy(d) \/ ~Truthy(DictGet(d, "fundamentals", EmptyDict))

AnalyzedTicker == "TICKER"

AnalyzeIdle(pc) ==
    /\ a_pc = pc
    /\ agent_weights = DefaultWeights
    /\ a_override = EmptyDict
    /\ original_weights = EmptyDict
    /\ a_gather = "none"
    /\ a_tasks = Tasks("raise", "raise", "raise")
    /\ a_data = EmptyDict
    /\ agent_results = EmptyDict
    /\ a_invoked = <<>>
    /\ a_returned = <<>>
    /\ progress_log = <<>>
    /\ progress_phases = <<>>
    /\ a_result = EmptyDict

AnalyzeOff == AnalyzeIdle("off")

\* analyze_single_stock up to the agent loop: the weight overrides are
\* applied and the data gathered; the call returns an error result when
\* _gather_data raises (date_ok is false: the analysis date does not parse)
\* or the bundle has no fundamentals.
AnalyzeStart(choice, date_ok, fo, po, bo, existing_portfolio) ==
    LET override == WeightOverride(choice)
        d == GatherData(Tasks(fo, po, bo), existing_portfolio)
    IN
    /\ a_pc = "start"
    /\ a_override' = override
    /\ original_weights' = IF Truthy(override) THEN agent_weights ELSE EmptyDict
    /\ agent_weights' = IF Truthy(override)
                        THEN ApplyWeights(agent_weights, override)
                        ELSE agent_weights
    /\ agent_results' = EmptyDict
    /\ a_invoked' = <<>>
    /\ a_returned' = <<>>
    /\ IF ~date_ok
       THEN /\ a_gather' = "raised"
            /\ a_tasks' = a_tasks
            /\ a_data' = EmptyDict
            /\ progress_log' = <<3>>
            /\ progress_phases' = <<"data">>
            /\ a_result' = ErrorResult(AnalyzedTicker, "Data gathering failed: bad date")
            /\ a_pc' = "done"
       ELSE /\ a_gather' = "returned"
            /\ a_tasks' = Tasks(fo, po, bo)
            /\ a_data' = d
            /\ IF HasNoData(d)
               THEN /\ progress_log' = <<3, 42, 10>>
                    /\ progress_phases' = <<"data", "data", "data">>
                    /\ a_result' = ErrorResult(AnalyzedTicker, "No data available")
                    /\ a_pc' = "done"
               ELSE /\ progress_log' = <<3, 42, 42>>
                    /\ progress_phases' = <<"data", "data", "data">>
                    /\ a_result' = EmptyDict
                    /\ a_pc' = "agents"
    /\ UNCHANGED analyzeOthers

\* One pass of the agent loop: the next registered agent is called and its
\* result, or the default entry when it raised, is stored.
AgentAnalyze(outcome) ==
    LET agent_count == Len(a_invoked) + 1
        agent_name == AgentNames[agent_count]
    IN
    /\ a_pc = "agents"
    /\ Len(a_invoked) < Len(AgentNames)
    /\ a_invoked' = Append(a_invoked, agent_name)
    /\ a_returned' = Append(a_returned, outcome)
    /\ agent_results' = StoreAgentResult(agent_results, agent_name, outcome)
    /\ progress_log' =
          progress_log \o <<AgentStartPct(agent_count)>>
              \o (IF outcome.kind = "raise" THEN <<>> ELSE <<AgentEndPct(agent_count)>>)
    /\ progress_phases' =
          progress_phases \o <<agent_name>>
              \o (IF outcome.kind = "raise" THEN <<>> ELSE <<agent_name>>)
    /\ UNCHANGED <<a_pc, agent_weights, a_override, original_weights,
                   a_gather, a_tasks, a_data, a_result, analyzeOthers>>

\* After the loop: the scores are blended, the weights restored and the
\* result returned.
AnalyzeFinalize ==
    /\ a_pc = "agents"
    /\ Len(a_invoked) = Len(AgentNames)
    /\ a_result' = ScoredResult(AnalyzedTicker, agent_results, agent_weights, a_data)
    /\ progress_log' = progress_log \o <<98, 99, 100>>
    /\ progress_phases' = progress_phases \o <<"final", "final", "final">>
    /\ agent_weights' = IF Truthy(a_override) THEN original_weights ELSE agent_weights
    /\ a_pc' = "done"
    /\ UNCHANGED <<a_override, original_weights, a_gather, a_tasks, a_data,
                   agent_results, a_invoked, a_returned, analyzeOthers>>

NextAnalyze ==
    \/ \E choice \in OverrideChoices, date_ok \in BOOLEAN,
          fo \in FundamentalsOutcomes, po \in {"raise", "live"},
          bo \in BenchmarkOutcomes :
          AnalyzeStart(choice, date_ok, fo, po, bo, <<>>)
    \/ \E outcome \in AgentOutcomes : AgentAnalyze(outcome)
    \/ AnalyzeFinalize

(***************************************************************************)
(* Portfolio pipeline                                                      *)
(***************************************************************************)
\* Largest num_positions tried.
MaxPositions == 3

\* The ticker lists tried, as the manual list or as the AI selection.
TickerLists == {<<"AAPL", "MSFT", "NVDA">>, <<"AAPL", "MSFT">>}

RECURSIVE RunAgents(_, _)
\* The agent loop of analyze_single_stock over the agents names, agent a
\* doing profile[a].
RunAgents(names, profile) ==
    IF names = <<>> THEN EmptyDict
    ELSE StoreAgentResult(RunAgents(SubSeq(names, 1, Len(names) - 1), profile),
                          names[Len(names)], profile[names[Len(names)]])

\* What the agents of one analysis do: all score 85, all score 0, or the
\* value agent raises and the others score 85.
AgentProfiles ==
    { [a \in Range(AgentNames) |-> [kind |-> "score", score |-> 85]],
      [a \in Range(AgentNames) |-> [kind |-> "score", score |-> 0]],
      [a \in Range(AgentNames) |->
          IF a = "value_agent" THEN [kind |-> "raise", score |-> NoneScore]
          ELSE [kind |-> "score", score |-> 85]] }

\* What one call of analyze_single_stock in the loop does: it raises, it
\* returns one of the two error results, or it returns a scored result.
AnalysisOutcomes ==
    {[kind |-> k, profile |-> EmptyDict] : k \in {"raise", "gather_failed", "no_data"}}
        \cup {[kind |-> "scored", profile |-> pr] : pr \in AgentProfiles}

\* The result of analyze_single_stock for an outcome other than "raise".
AnalyzeSingleStock(ticker, outcome, existing_portfolio) ==
    CASE outcome.kind = "gather_failed" ->
            ErrorResult(ticker, "Data gathering failed: bad date")
      [] outcome.kind = "no_data" -> ErrorResult(ticker, "No data available")
      [] OTHER ->
            ScoredResult(ticker, RunAgents(AgentNames, outcome.profile), DefaultWeights,
                         GatherData(Tasks("basic", "live", "series"), existing_portfolio))

RECURSIVE InsertByScore(_, _)
\* x placed behind the elements of the descending list s whose final_score
\* is not smaller.
InsertByScore(s, x) ==
    IF s = <<>> THEN <<x>>
    ELSE IF RatLess(Head(s).final_score, x.final_score)
         THEN <<x>> \o s
         ELSE <<Head(s)>> \o InsertByScore(Tail(s), x)

RECURSIVE SortByFinalScore(_)
\* portfolio_analyses.sort(key=final_score, reverse=True): stable.
SortByFinalScore(s) ==
    IF s = <<>> THEN <<>>
    ELSE InsertByScore(SortByFinalScore(SubSeq(s, 1, Len(s) - 1)), s[Len(s)])

RatAdd(a, b) == Rat(a.num * b.den + b.num * a.den, a.den * b.den)

RECURSIVE SumFinalScores(_)
SumFinalScores(s) ==
    IF s = <<>> THEN Rat(0, 1) ELSE RatAdd(Head(s).final_score, SumFinalScores(Tail(s)))

\* The keys the portfolio construction reads with stock[...].
RequiredKeys == {"ticker", "fundamentals", "final_score", "blended_score", "recommendation"}

\* The portfolio construction raises KeyError on the first stock lacking
\* one of them.
BuildRaises(stocks) == \E i \in 1..Len(stocks) : ~(RequiredKeys \subseteq DOMAIN stocks[i])

\* Stage 4: one equal-weight position per stock.
BuildPortfolio(stocks) ==
    [i \in 1..Len(stocks) |->
        [ticker |-> stocks[i].ticker,
         name |-> DictGet(stocks[i].fundamentals, "name", stocks[i].ticker),
         sector |-> DictGet(stocks[i].fundamentals, "sector", "Unknown"),
         final_score |-> stocks[i].final_score,
         blended_score |-> stocks[i].blended_score,
         eligible |-> TRUE,
         target_weight_pct |-> Rat(100, Len(stocks)),
         rationale |-> DictGet(stocks[i], "ai_rationale", "See comprehensive analysis"),
         recommendation |-> stocks[i].recommendation,
         analysis |-> stocks[i]]]

PortfolioIdle(pc) ==
    /\ pf_pc = pc
    /\ pf_tickers = <<>>
    /\ pf_manual = FALSE
    /\ num_positions = 0
    /\ selected_tickers = <<>>
    /\ pf_rationales = EmptyDict
    /\ portfolio_analyses = <<>>
    /\ pf_analyzed = <<>>
    /\ pf_outcomes = <<>>
    /\ pf_error = "none"
    /\ pf_result = EmptyDict

PortfolioOff == PortfolioIdle("off")

\* Stage 1: the tickers are the first num_positions of the manual list, or
\* the final tickers of the AI selection; without a manual list and without
\* a selector the call raises ValueError.
PortfolioSelect(manual, has_selector, tickers, n) ==
    /\ pf_pc = "select"
    /\ pf_manual' = manual
    /\ pf_tickers' = tickers
    /\ num_positions' = n
    /\ IF ~manual /\ ~has_selector
       THEN /\ pf_pc' = "raised"
            /\ pf_error' = "ValueError: AI Portfolio Selector not initialized"
            /\ UNCHANGED <<selected_tickers, pf_rationales>>
       ELSE /\ pf_pc' = "analyze"
            /\ selected_tickers' = IF manual THEN Take(tickers, n) ELSE tickers
            /\ pf_rationales' =
                  LET sel == IF manual THEN Take(tickers, n) ELSE tickers IN
                  [t \in Range(sel) |->
                      IF manual THEN "Manually selected ticker" ELSE "llm_rationale"]
            /\ UNCHANGED pf_error
    /\ UNCHANGED <<portfolio_analyses, pf_analyzed, pf_outcomes, pf_result,
                   portfolioOthers>>

\* Stage 2, one pass of the loop: the next ticker is analyzed; its result
\* is kept unless the analysis raised.
PortfolioAnalyze(outcome) ==
    LET ticker == selected_tickers[Len(pf_analyzed) + 1]
        analysis == AnalyzeSingleStock(ticker, outcome, portfolio_analyses)
    IN
    /\ pf_pc = "analyze"
    /\ Len(pf_analyzed) < Len(selected_tickers)
    /\ pf_analyzed' = Append(pf_analyzed, ticker)
    /\ pf_outcomes' = Append(pf_outcomes, outcome.kind)
    /\ portfolio_analyses' =
          IF outcome.kind = "raise" THEN portfolio_analyses
          ELSE Append(portfolio_analyses,
                      IF ticker \in DOMAIN pf_rationales
                      THEN DictPut(analysis, "ai_rationale", pf_rationales[ticker])
                      ELSE analysis)
    /\ UNCHANGED <<pf_pc, pf_tickers, pf_manual, num_positions, selected_tickers,
                   pf_rationales, pf_error, pf_result, portfolioOthers>>

\* Stages 3 to 5: the analyses are sorted, the top num_positions become the
\* portfolio and the summary is computed.
PortfolioBuild ==
    LET sorted == SortByFinalScore(portfolio_analyses)
        portfolio_stocks == Take(sorted, num_positions)
        portfolio == BuildPortfolio(portfolio_stocks)
    IN
    /\ pf_pc = "analyze"
    /\ Len(pf_analyzed) = Len(selected_tickers)
    /\ portfolio_analyses' = sorted
    /\ IF BuildRaises(portfolio_stocks)
       THEN /\ pf_pc' = "raised"
            /\ pf_error' = "KeyError: recommendation"
            /\ UNCHANGED pf_result
       ELSE /\ pf_pc' = "done"
            /\ pf_result' =
                  [portfolio |-> portfolio,
                   summary |->
                      [num_positions |-> Len(portfolio),
                       total_weight_pct |-> IF portfolio = <<>> THEN Rat(0, 1)
                                            ELSE Rat(100, 1),
                       avg_score |->
                          IF portfolio = <<>> THEN Rat(0, 1)
                          ELSE LET total == SumFinalScores(portfolio_stocks)
                               IN Rat(total.num, total.den * Len(portfolio)),
                       selection_method |-> IF pf_manual THEN "Manual" ELSE "AI-powered"],
                   analysis_date |-> "date",
                   all_candidates |-> selected_tickers,
                   eligible_count |-> Len(sorted),
                   total_analyzed |-> Len(sorted),
                   all_analyses |-> sorted]
            /\ UNCHANGED pf_error
    /\ UNCHANGED <<pf_tickers, pf_manual, num_positions, selected_tickers,
                   pf_rationales, pf_analyzed, pf_outcomes, portfolioOthers>>

NextPortfolio ==
    \/ \E manual \in BOOLEAN, has_selector \in BOOLEAN, tickers \in TickerLists,
          n \in 1..MaxPositions :
          PortfolioSelect(manual, has_selector, tickers, n)
    \/ \E outcome \in AnalysisOutcomes : PortfolioAnalyze(outcome)
    \/ PortfolioBuild

(***************************************************************************)
(* Score blender: _blend_scores and _generate_recommendation on their own  *)
(***************************************************************************)
\* An agent drawn as NoEntry has no entry in agent_results.
NoEntry == -2

\* The scores each agent is given, in the order of AgentNames: both ends of
\* the range and a value inside every band of the upside thresholds.
BlendScoreChoices ==
    <<{0, 50, 80, 100},
      {0, 35, 50, 65, 72, 85, 100},
      {0, 50, 100},
      {0, 25, 60, 100},
      {0, 50, 68, 78, 100}>>

\* The weight maps tried, in hundredths: the constructor's, the constructor's
\* after a full and after a partial override, all weights zero, a map
\* naming two agents only, and a map naming no known agent.
BlendWeightMaps ==
    {DefaultWeights,
     ApplyWeights(DefaultWeights, WeightOverride("full")),
     ApplyWeights(DefaultWeights, WeightOverride("partial")),
     [a \in DOMAIN DefaultWeights |-> 0],
     [value_agent |-> 25, growth_momentum_agent |-> 75],
     [momentum_agent |-> 100]}

\* The agent_results map in which the i-th agent scored scores[i]; every
\* entry went through the agent loop.
ResultsOf(scores) ==
    [a \in {AgentNames[i] : i \in {j \in 1..Len(AgentNames) : scores[j] # NoEntry}} |->
        LET i == CHOOSE j \in 1..Len(AgentNames) : AgentNames[j] = a
        IN Coalesce(AgentReturn([kind |-> "score", score |-> scores[i]]))]

BlendOff ==
    /\ bl_pc = "off"
    /\ bl_results = EmptyDict
    /\ bl_weights = EmptyDict
    /\ bl_base = Rat(0, 1)
    /\ bl_multiplier = 0
    /\ bl_final = Rat(0, 1)
    /\ bl_label = ""

\* blended_score = self._blend_scores(agent_results)
BlendApply ==
    /\ bl_pc = "input"
    /\ bl_base' = BaseScore(bl_results, bl_weights)
    /\ bl_multiplier' = UpsideMultiplier(bl_results)
    /\ bl_final' = BlendScores(bl_results, bl_weights)
    /\ bl_pc' = "blended"
    /\ UNCHANGED <<bl_results, bl_weights, bl_label, blendOthers>>

\* recommendation = self._generate_recommendation(blended_score)
BlendRecommend ==
    /\ bl_pc = "blended"
    /\ bl_label' = GenerateRecommendation(bl_final)
    /\ bl_pc' = "labelled"
    /\ UNCHANGED <<bl_results, bl_weights, bl_base, bl_multiplier, bl_final, blendOthers>>

NextBlend ==
    \/ BlendApply
    \/ BlendRecommend

(***************************************************************************)
(* Time-remaining estimator: _estimate_time_remaining over the analyses of *)
(* one session.  Seconds are kept in milliseconds, rounded down.           *)
(***************************************************************************)
\* Calls of _estimate_time_remaining made per analysis, analyses per session.
MaxEtaCalls == 3
MaxAnalyses == 2

\* session_state has no _eta_previous attribute yet.
NoEta == -1

\* phases: (start_pct, end_pct, default duration in milliseconds)
Phases ==
    <<[name |-> "data_gather", start_pct |-> 0, end_pct |-> 42, duration |-> 35000],
      [name |-> "agents", start_pct |-> 42, end_pct |-> 98, duration |-> 48000],
      [name |-> "finalize", start_pct |-> 98, end_pct |-> 100, duration |-> 1000]>>

\* The recorded phase times tried: none, and a history of faster data
\* gathering and slower agents (0: no run recorded for the phase).
HistoryChoices ==
    {[data_gather |-> 0, agents |-> 0, finalize |-> 0],
     [data_gather |-> 20000, agents |-> 60000, finalize |-> 0]}

\* The progress_pct and elapsed (milliseconds) arguments tried.
PctChoices == {2, 3, 42, 70, 98, 100}
ElapsedChoices == {500, 2000}

\* "Override defaults with historical data if available"
PhaseDuration(i, hist) ==
    IF hist[Phases[i].name] > 0 THEN hist[Phases[i].name] ELSE Phases[i].duration

\* The index of the first phase with progress_pct < end_pct; 0 if none.
CurrentPhase(progress_pct) ==
    IF \E i \in 1..Len(Phases) : progress_pct < Phases[i].end_pct
    THEN CHOOSE i \in 1..Len(Phases) :
            /\ progress_pct < Phases[i].end_pct
            /\ \A j \in 1..(i - 1) : progress_pct >= Phases[j].end_pct
    ELSE 0

RECURSIVE FutureDurations(_, _)
\* The full durations of the phases after phase i.
FutureDurations(i, hist) ==
    IF i >= Len(Phases) THEN 0
    ELSE PhaseDuration(i + 1, hist) + FutureDurations(i + 1, hist)

\* remaining before smoothing: what is left of the current phase
\* (phase_progress clamped to [0, 1]) plus the phases to come.
RawRemaining(progress_pct, hist) ==
    LET i == CurrentPhase(progress_pct)
        span == Phases[i].end_pct - Phases[i].start_pct
        left == Max2(0, Min2(span, Phases[i].end_pct - progress_pct))
    IN (PhaseDuration(i, hist) * left) \div span + FutureDurations(i, hist)

\* A smoothing that follows the raw value and ignores the previous estimate.
SmoothedRawOnly(remaining, prev) == remaining

\* "EMA smoothing to prevent display jumps": alpha = 0.4 and the increase
\* capped at 15% of the previous estimate.
Smoothed(remaining, prev) ==
    IF prev # NoEta /\ prev > 0
    THEN LET capped == IF remaining * 20 > prev * 23
                       THEN (prev * 23) \div 20 ELSE remaining
         IN (2 * capped + 3 * prev) \div 5
    ELSE remaining

\* secs = max(1, int(remaining))
DisplaySeconds(remaining) == Max2(1, remaining \div 1000)

\* Whether the call returns before the estimate: progress_pct < 3 or
\* elapsed < 1.0, or no phase is current.
ReturnsEarly(elapsed, progress_pct) ==
    progress_pct < 3 \/ elapsed < 1000 \/ CurrentPhase(progress_pct) = 0

EtaOff ==
    /\ eta_previous = NoEta
    /\ eta_hist = [data_gather |-> 0, agents |-> 0, finalize |-> 0]
    /\ eta_analyses = 0
    /\ eta_calls = 0
    /\ eta_pct = 0
    /\ eta_nondecreasing = TRUE
    /\ eta_emitted = <<>>
    /\ eta_display = 0

\* One call of _estimate_time_remaining(elapsed, progress_pct, session_state).
EtaEstimate(elapsed, progress_pct) ==
    /\ eta_analyses > 0
    /\ eta_calls < MaxEtaCalls
    /\ eta_calls' = eta_calls + 1
    /\ eta_pct' = progress_pct
    /\ eta_nondecreasing' = (eta_nondecreasing /\ (eta_calls = 0 \/ progress_pct >= eta_pct))
    /\ IF ReturnsEarly(elapsed, progress_pct)
       THEN /\ eta_display' = 0
            /\ UNCHANGED <<eta_previous, eta_emitted>>
       ELSE LET remaining == Smoothed(RawRemaining(progress_pct, eta_hist), eta_previous)
            IN /\ eta_previous' = remaining
               /\ IF remaining <= 0
                  THEN /\ eta_display' = 0
                       /\ UNCHANGED eta_emitted
                  ELSE /\ eta_display' = DisplaySeconds(remaining)
                       /\ eta_emitted' = Append(eta_emitted, remaining)
    /\ UNCHANGED <<eta_hist, eta_analyses, etaOthers>>

\* The next analysis of the session starts: analyze_single_stock makes a
\* fresh _current_progress and leaves session_state._eta_previous as it is.
EtaNextAnalysis ==
    /\ eta_analyses > 0
    /\ eta_analyses < MaxAnalyses
    /\ eta_analyses' = eta_analyses + 1
    /\ eta_calls' = 0
    /\ eta_pct' = 0
    /\ eta_nondecreasing' = TRUE
    /\ eta_emitted' = <<>>
    /\ eta_display' = 0
    /\ UNCHANGED <<eta_previous, eta_hist, etaOthers>>

NextEta ==
    \/ \E elapsed \in ElapsedChoices, progress_pct \in PctChoices :
          EtaEstimate(elapsed, progress_pct)
    \/ EtaNextAnalysis

(***************************************************************************)
(* Performance analysis: PerformanceAnalysisEngineV2.analyze_performance_  *)
(* period and the DynamicTimeEstimator each engine owns.  Seconds are kept *)
(* in milliseconds, rounded down.  Every engine reads and writes the one   *)
(* file data/performance_analysis_v2/timing_history.json.                  *)
(***************************************************************************)
Engines == {"e1", "e2"}

\* Calls of analyze_performance_period over all engines, advances of the clock.
MaxRuns == 2
MaxTicks == 3

\* What one advance of time.time() adds, in milliseconds.
TickChoices == {3000}

\* len(movements) as _identify_movements_fast returns it.
MovementChoices == {0, 1, 4}

\* None, for a time and for a phase name.
NoTime == -1
NoPhase == "None"

\* self.historical_averages as __init__ sets it.
SeedAverages ==
    [identify_movements |-> 2000, analyze_per_movement |-> 150,
     generate_recommendations |-> 1000, create_report |-> 500]

\* phase_order of estimate_remaining.
phase_order ==
    <<"identify_movements", "analyze_movements", "generate_recommendations", "create_report">>

\* phase_key_map: the key of historical_averages read for a phase.
phase_key_map(phase) ==
    IF phase = "analyze_movements" THEN "analyze_per_movement" ELSE phase

\* _load_history: historical_averages.update(data['averages']); the seeds
\* stay while the file is absent.
LoadHistory(file) ==
    [k \in DOMAIN SeedAverages \cup DOMAIN file |->
        IF k \in DOMAIN file THEN file[k] ELSE SeedAverages[k]]

\* The loop of _save_history over phase_times: old * 0.7 + duration * 0.3
\* for a phase that is a key of historical_averages, the duration otherwise.
UpdatedAverages(averages, times) ==
    [k \in DOMAIN averages \cup DOMAIN times |->
        IF k \in DOMAIN times
        THEN IF k \in DOMAIN averages
             THEN (7 * averages[k] + 3 * times[k]) \div 10
             ELSE times[k]
        ELSE averages[k]]

\* phase_times after start_phase or end_phase has closed the open phase, if
\* there is one.
ClosePhase(open_phase, started, times, now) ==
    IF open_phase # NoPhase /\ started # NoTime
    THEN DictPut(times, open_phase, now - started)
    ELSE times

\* The position of a phase in phase_order, 0 for a name that is not in it.
PhaseIndex(phase) ==
    IF \E i \in 1..Len(phase_order) : phase_order[i] = phase
    THEN CHOOSE i \in 1..Len(phase_order) : phase_order[i] = phase
    ELSE 0

\* What estimate_remaining takes for the whole of a phase.
EstimatedPhaseTime(averages, phase, movement_count) ==
    IF phase = "analyze_movements"
    THEN averages["analyze_per_movement"] * Max2(movement_count, 1)
    ELSE averages[phase]

\* phase_remaining: the rest of the current phase, at progress num / den.
PhaseRemaining(now, started, averages, phase, num, den, movement_count) ==
    IF phase = "analyze_movements" /\ movement_count > 0
    THEN LET movements_processed == (movement_count * num) \div den
         IN IF started # NoTime /\ movements_processed > 0
            THEN ((now - started) * (movement_count - movements_processed))
                     \div movements_processed
            ELSE movement_count * averages["analyze_per_movement"]
    ELSE IF PhaseIndex(phase) > 0
         THEN LET phase_key == phase_key_map(phase)
                  estimated_phase_time ==
                      (IF phase_key \in DOMAIN averages THEN averages[phase_key] ELSE 1000)
                      * (IF phase_key = "analyze_per_movement"
                         THEN Max2(movement_count, 1) ELSE 1)
              IN (estimated_phase_time * (den - num)) \div den
         ELSE (1000 * (den - num)) \div den

RECURSIVE SumFrom(_, _, _)
SumFrom(averages, i, movement_count) ==
    IF i > Len(phase_order) THEN 0
    ELSE EstimatedPhaseTime(averages, phase_order[i], movement_count)
             + SumFrom(averages, i + 1, movement_count)

\* remaining_phase_time: the phases of phase_order after the current one.
RemainingPhaseTime(averages, phase, movement_count) ==
    IF PhaseIndex(phase) = 0 THEN 0
    ELSE SumFrom(averages, PhaseIndex(phase) + 1, movement_count)

\* estimated_so_far: what the completed phases were expected to take.
EstimatedSoFar(averages, times, movement_count) ==
    (IF "identify_movements" \in DOMAIN times THEN averages["identify_movements"] ELSE 0)
    + (IF "analyze_movements" \in DOMAIN times
       THEN averages["analyze_per_movement"] * Max2(movement_count, 1) ELSE 0)

\* elapsed_total of estimate_remaining.
ElapsedTotal(now, total_started) ==
    IF total_started # NoTime THEN now - total_started ELSE 0

\* total_remaining as it is before the adjustment and the floor of 0.5 s.
EstimateRemainingUnfloored(now, total_started, started, times, averages, phase, num, den, movement_count) ==
    PhaseRemaining(now, started, averages, phase, num, den, movement_count)
    + RemainingPhaseTime(averages, phase, movement_count)

\* estimate_remaining(current_phase, progress_pct = num / den, movement_count)
\* on an estimator in the given state.
EstimateRemaining(now, total_started, started, times, averages, phase, num, den, movement_count) ==
    LET total_remaining ==
            PhaseRemaining(now, started, averages, phase, num, den, movement_count)
            + RemainingPhaseTime(averages, phase, movement_count)
        elapsed_total == ElapsedTotal(now, total_started)
        estimated_so_far == EstimatedSoFar(averages, times, movement_count)
        adjusted ==
            IF elapsed_total > 5000 /\ estimated_so_far > 0
            THEN (total_remaining * elapsed_total) \div estimated_so_far
            ELSE total_remaining
    IN Max2(500, adjusted)

\* The record kept of one estimate_remaining call.
EstimateCall(e, now, total_started, started, times, averages, phase, num, den, movement_count) ==
    [engine |-> e, phase |-> phase, num |-> num, den |-> den,
     movement_count |-> movement_count, averages |-> averages,
     elapsed_total |-> ElapsedTotal(now, total_started),
     completed |-> DOMAIN times,
     value |-> EstimateRemaining(now, total_started, started, times, averages,
                                 phase, num, den, movement_count)]

NoEstimate ==
    [engine |-> "none", phase |-> NoPhase, num |-> 0, den |-> 1,
     movement_count |-> 0, averages |-> SeedAverages, elapsed_total |-> 0,
     completed |-> {}, value |-> 0]

PerfOff ==
    /\ pe_now = 0
    /\ pe_ticks = 0
    /\ pe_engines = {}
    /\ pe_runs = 0
    /\ pe_overlap = FALSE
    /\ pe_pc = [e \in Engines |-> "idle"]
    /\ pe_returned = [e \in Engines |-> "none"]
    /\ pe_movements = [e \in Engines |-> 0]
    /\ pe_i = [e \in Engines |-> 0]
    /\ current_phase = [e \in Engines |-> NoPhase]
    /\ phase_start_time = [e \in Engines |-> NoTime]
    /\ total_start_time = [e \in Engines |-> NoTime]
    /\ phase_times = [e \in Engines |-> EmptyDict]
    /\ historical_averages = [e \in Engines |-> SeedAverages]
    /\ timing_history = EmptyDict
    /\ pe_before = [e \in Engines |-> SeedAverages]
    /\ pe_estimate = NoEstimate

\* time.time() moves on.
PerfTick(dt) ==
    /\ pe_engines # {}
    /\ pe_ticks < MaxTicks
    /\ pe_ticks' = pe_ticks + 1
    /\ pe_now' = pe_now + dt
    /\ UNCHANGED <<pe_engines, pe_runs, pe_overlap, pe_pc, pe_returned, pe_movements,
                   pe_i, current_phase, phase_start_time, total_start_time, phase_times,
                   historical_averages, timing_history, pe_before, pe_estimate, perfOthers>>

\* PerformanceAnalysisEngineV2(): a further engine with its own
\* DynamicTimeEstimator, whose __init__ loads the history file.
PerfConstruct(e) ==
    /\ pe_engines # {}
    /\ e \notin pe_engines
    /\ pe_engines' = pe_engines \cup {e}
    /\ historical_averages' = [historical_averages EXCEPT ![e] = LoadHistory(timing_history)]
    /\ pe_before' = [pe_before EXCEPT ![e] = LoadHistory(timing_history)]
    /\ UNCHANGED <<pe_now, pe_ticks, pe_runs, pe_overlap, pe_pc, pe_returned, pe_movements,
                   pe_i, current_phase, phase_start_time, total_start_time, phase_times,
                   timing_history, pe_estimate, perfOthers>>

\* analyze_performance_period up to the call of _identify_movements_fast:
\* start_total, start_phase('identify_movements'), the first estimate.
PerfStart(e) ==
    /\ e \in pe_engines
    /\ pe_pc[e] = "idle"
    /\ pe_runs < MaxRuns
    /\ pe_runs' = pe_runs + 1
    /\ pe_overlap' = (pe_overlap \/ \E o \in Engines \ {e} : pe_pc[o] # "idle")
    /\ LET times == ClosePhase(current_phase[e], phase_start_time[e], EmptyDict, pe_now)
       IN /\ total_start_time' = [total_start_time EXCEPT ![e] = pe_now]
          /\ phase_times' = [phase_times EXCEPT ![e] = times]
          /\ current_phase' = [current_phase EXCEPT ![e] = "identify_movements"]
          /\ phase_start_time' = [phase_start_time EXCEPT ![e] = pe_now]
          /\ pe_estimate' = EstimateCall(e, pe_now, pe_now, pe_now, times,
                                         historical_averages[e], "identify_movements", 0, 1, 0)
    /\ pe_pc' = [pe_pc EXCEPT ![e] = "identify"]
    /\ pe_returned' = [pe_returned EXCEPT ![e] = "running"]
    /\ pe_movements' = [pe_movements EXCEPT ![e] = 0]
    /\ pe_i' = [pe_i EXCEPT ![e] = 0]
    /\ UNCHANGED <<pe_now, pe_ticks, pe_engines, historical_averages, timing_history,
                   pe_before, perfOthers>>

\* finalize() on times as end_phase left them: _save_history refines the
\* engine's averages and writes them to the file, if any phase was timed.
Finalize(e, times) ==
    /\ pe_before' = [pe_before EXCEPT ![e] = historical_averages[e]]
    /\ IF DOMAIN times # {}
       THEN /\ historical_averages' =
                   [historical_averages EXCEPT ![e] = UpdatedAverages(historical_averages[e], times)]
            /\ timing_history' = UpdatedAverages(historical_averages[e], times)
       ELSE UNCHANGED <<historical_averages, timing_history>>

\* _identify_movements_fast returns n movements: end_phase, then the empty
\* report after finalize, or start_phase('analyze_movements') and its estimate.
PerfIdentified(e, n) ==
    /\ e \in pe_engines
    /\ pe_pc[e] = "identify"
    /\ LET times == ClosePhase(current_phase[e], phase_start_time[e], phase_times[e], pe_now)
       IN /\ phase_times' = [phase_times EXCEPT ![e] = times]
          /\ IF n = 0
             THEN /\ Finalize(e, times)
                  /\ current_phase' = [current_phase EXCEPT ![e] = NoPhase]
                  /\ phase_start_time' = [phase_start_time EXCEPT ![e] = NoTime]
                  /\ pe_pc' = [pe_pc EXCEPT ![e] = "idle"]
                  /\ pe_returned' = [pe_returned EXCEPT ![e] = "empty"]
                  /\ UNCHANGED <<pe_movements, pe_estimate>>
             ELSE /\ current_phase' = [current_phase EXCEPT ![e] = "analyze_movements"]
                  /\ phase_start_time' = [phase_start_time EXCEPT ![e] = pe_now]
                  /\ pe_estimate' = EstimateCall(e, pe_now, total_start_time[e], pe_now, times,
                                                 historical_averages[e], "analyze_movements", 0, 1, n)
                  /\ pe_pc' = [pe_pc EXCEPT ![e] = "analyze"]
                  /\ pe_movements' = [pe_movements EXCEPT ![e] = n]
                  /\ UNCHANGED <<historical_averages, timing_history, pe_before, pe_returned>>
    /\ UNCHANGED <<pe_now, pe_ticks, pe_engines, pe_runs, pe_overlap, pe_i,
                   total_start_time, perfOthers>>

\* _analyze_movements_fast reaches a movement whose index i is a multiple
\* of 3 and reports progress i / total with a fresh estimate.
PerfProgress(e) ==
    /\ e \in pe_engines
    /\ pe_pc[e] = "analyze"
    /\ pe_i[e] < pe_movements[e]
    /\ pe_estimate' = EstimateCall(e, pe_now, total_start_time[e], phase_start_time[e],
                                   phase_times[e], historical_averages[e],
                                   "analyze_movements", pe_i[e], pe_movements[e], pe_movements[e])
    /\ pe_i' = [pe_i EXCEPT ![e] = pe_i[e] + 3]
    /\ UNCHANGED <<pe_now, pe_ticks, pe_engines, pe_runs, pe_overlap, pe_pc, pe_returned,
                   pe_movements, current_phase, phase_start_time, total_start_time,
                   phase_times, historical_averages, timing_history, pe_before, perfOthers>>

\* A step between two phases: end_phase, start_phase(next), the estimate
\* for the phase that starts.
PerfPhaseStep(e, from_pc, to_pc, next_phase) ==
    /\ e \in pe_engines
    /\ pe_pc[e] = from_pc
    /\ LET times == ClosePhase(current_phase[e], phase_start_time[e], phase_times[e], pe_now)
       IN /\ phase_times' = [phase_times EXCEPT ![e] = times]
          /\ pe_estimate' = EstimateCall(e, pe_now, total_start_time[e], pe_now, times,
                                         historical_averages[e], next_phase, 0, 1, 0)
    /\ current_phase' = [current_phase EXCEPT ![e] = next_phase]
    /\ phase_start_time' = [phase_start_time EXCEPT ![e] = pe_now]
    /\ pe_pc' = [pe_pc EXCEPT ![e] = to_pc]
    /\ UNCHANGED <<pe_now, pe_ticks, pe_engines, pe_runs, pe_overlap, pe_returned,
                   pe_movements, pe_i, total_start_time, historical_averages,
                   timing_history, pe_before, perfOthers>>

\* _analyze_movements_fast returns: on to generate_recommendations.
PerfAnalyzed(e) ==
    /\ pe_i[e] >= pe_movements[e]
    /\ PerfPhaseStep(e, "analyze", "recommend", "generate_recommendations")

\* _generate_recommendations_fast returns: on to create_report.
PerfRecommended(e) ==
    PerfPhaseStep(e, "recommend", "report", "create_report")

\* _create_report returns: end_phase, _save_results, finalize, the report.
PerfReported(e) ==
    /\ e \in pe_engines
    /\ pe_pc[e] = "report"
    /\ LET times == ClosePhase(current_phase[e], phase_start_time[e], phase_times[e], pe_now)
       IN /\ phase_times' = [phase_times EXCEPT ![e] = times]
          /\ Finalize(e, times)
    /\ current_phase' = [current_phase EXCEPT ![e] = NoPhase]
    /\ phase_start_time' = [phase_start_time EXCEPT ![e] = NoTime]
    /\ pe_pc' = [pe_pc EXCEPT ![e] = "idle"]
    /\ pe_returned' = [pe_returned EXCEPT ![e] = "full"]
    /\ UNCHANGED <<pe_now, pe_ticks, pe_engines, pe_runs, pe_overlap, pe_movements,
                   pe_i, total_start_time, pe_estimate, perfOthers>>

\* An exception inside a phase: the except clause logs it and returns the
\* error report; the estimator is left as it was.
PerfRaise(e) ==
    /\ e \in pe_engines
    /\ pe_pc[e] # "idle"
    /\ pe_pc' = [pe_pc EXCEPT ![e] = "idle"]
    /\ pe_returned' = [pe_returned EXCEPT ![e] = "error"]
    /\ UNCHANGED <<pe_now, pe_ticks, pe_engines, pe_runs, pe_overlap, pe_movements,
                   pe_i, current_phase, phase_start_time, total_start_time, phase_times,
                   historical_averages, timing_history, pe_before, pe_estimate, perfOthers>>

NextPerf ==
    \/ \E dt \in TickChoices : PerfTick(dt)
    \/ \E e \in Engines : PerfStart(e)
    \/ \E e \in Engines, n \in MovementChoices : PerfIdentified(e, n)
    \/ \E e \in Engines : PerfProgress(e)
    \/ \E e \in Engines : PerfAnalyzed(e)
    \/ \E e \in Engines : PerfRecommended(e)
    \/ \E e \in Engines : PerfReported(e)
    \/ \E e \in Engines : PerfRaise(e)

\* The same with further engines constructed while others run.
NextStore ==
    \/ \E dt \in TickChoices : PerfTick(dt)
    \/ \E e \in Engines : PerfConstruct(e)
    \/ \E e \in Engines : PerfStart(e)
    \/ \E e \in Engines, n \in MovementChoices : PerfIdentified(e, n)
    \/ \E e \in Engines : PerfProgress(e)
    \/ \E e \in Engines : PerfAnalyzed(e)
    \/ \E e \in Engines : PerfRecommended(e)
    \/ \E e \in Engines : PerfReported(e)
    \/ \E e \in Engines : PerfRaise(e)

(***************************************************************************)
(* Progress bar of one analyze_single_stock run: the main thread's         *)
(* update_progress calls and the _smooth_progress_interpolator threads it  *)
(* starts.  Percents are kept in tenths of a percent.                      *)
(***************************************************************************)
\* Iterations of an interpolator's loop: max(1, int(duration_estimate / 0.5)).
InterpSteps == 1

\* The interpolator threads: 0 for data gathering, count for the agent
\* that is the count-th of self.agents.
Interpolators == 0..Len(AgentNames)

\* How _gather_data comes back, and how agent.analyze does.
GatherOutcomes == {"ok", "no_fundamentals", "raises"}
AnalyzeOutcomes == {"ok", "raises"}

\* agent_start_pct and agent_end_pct before int().
AgentStartTenths(count) == 420 + ((count - 1) * 560) \div Len(AgentNames)
AgentEndTenths(count) == 420 + (count * 560) \div Len(AgentNames)

\* start_pct and end_pct as the thread is given them.
InterpStart(t) == IF t = 0 THEN 30 ELSE AgentStartTenths(t) + 10
InterpEnd(t) == IF t = 0 THEN 400 ELSE AgentEndTenths(t) - 10

\* pct_per_step.
PctPerStep(t) == (InterpEnd(t) - InterpStart(t)) \div InterpSteps

\* The places of analyze_single_stock that call update_progress, and the
\* percent each passes.
UpdateSites ==
    {"begin", "gathered", "agent_begin", "agent_done", "blend", "complete", "total"}

UpdatePct ==
    CASE pr_pc = "begin" -> 3
      [] pr_pc = "gathered" -> 42
      [] pr_pc = "agent_begin" -> AgentStartPct(pr_count)
      [] pr_pc = "agent_done" -> AgentEndPct(pr_count)
      [] pr_pc = "blend" -> 98
      [] pr_pc = "complete" -> 99
      [] OTHER -> 100

\* Where the main thread goes after the agent whose count is pr_count.
AfterAgent == IF pr_count < Len(AgentNames) THEN "agent_begin" ELSE "blend"

\* Where the main thread goes after an update_progress call.
AfterUpdate ==
    CASE pr_pc = "begin" -> "start_gather"
      [] pr_pc = "gathered" -> IF pr_data = "ok" THEN "agent_begin" ELSE "done"
      [] pr_pc = "agent_begin" -> "start_agent"
      [] pr_pc = "agent_done" -> AfterAgent
      [] pr_pc = "blend" -> "complete"
      [] pr_pc = "complete" -> "total"
      [] OTHER -> "done"

\* progress_bar.progress(value / 100.0), by whichever thread.
BarWritten(value) ==
    /\ progress_bar' = value
    /\ pr_regressed' = (pr_regressed \/ value < progress_bar)

ProgressIdle(pc) ==
    /\ pr_pc = pc
    /\ pr_showing = FALSE
    /\ pr_count = 0
    /\ pr_data = "none"
    /\ current_progress = [pct |-> 0, stop |-> FALSE]
    /\ ip_pc = [t \in Interpolators |-> "off"]
    /\ ip_current_pct = [t \in Interpolators |-> InterpStart(t)]
    /\ ip_i = [t \in Interpolators |-> 0]
    /\ progress_bar = 0
    /\ pr_regressed = FALSE

ProgressOff == ProgressIdle("done")

\* update_progress(message, progress_pct), its locked part: the percent is
\* put into _current_progress.
UpdatePublish ==
    /\ pr_pc \in UpdateSites
    /\ ~pr_showing
    /\ current_progress' = [current_progress EXCEPT !.pct = UpdatePct * 10]
    /\ pr_showing' = TRUE
    /\ UNCHANGED <<pr_pc, pr_count, pr_data, ip_pc, ip_current_pct, ip_i, progress_bar,
                   pr_regressed, progressOthers>>

\* update_progress, after the lock: the bar is written and the call returns.
UpdateShow ==
    /\ pr_pc \in UpdateSites
    /\ pr_showing
    /\ BarWritten(UpdatePct * 10)
    /\ pr_showing' = FALSE
    /\ pr_pc' = AfterUpdate
    /\ pr_count' = IF pr_pc = "gathered" \/ (pr_pc = "agent_done" /\ AfterAgent = "agent_begin")
                   THEN pr_count + 1 ELSE pr_count
    /\ UNCHANGED <<pr_data, current_progress, ip_pc, ip_current_pct, ip_i, progressOthers>>

\* The interpolator thread for data gathering is started.
StartGatherInterpolator ==
    /\ pr_pc = "start_gather"
    /\ ip_pc' = [ip_pc EXCEPT ![0] = "check"]
    /\ pr_pc' = "gather"
    /\ UNCHANGED <<pr_showing, pr_count, pr_data, current_progress, ip_current_pct, ip_i,
                   progress_bar, pr_regressed, progressOthers>>

\* _gather_data comes back: stop is set; after an exception the error
\* result is returned at once.
GatherReturns(outcome) ==
    /\ pr_pc = "gather"
    /\ current_progress' = [current_progress EXCEPT !.stop = TRUE]
    /\ pr_data' = outcome
    /\ pr_pc' = IF outcome = "raises" THEN "done" ELSE "gathered"
    /\ UNCHANGED <<pr_showing, pr_count, ip_pc, ip_current_pct, ip_i, progress_bar,
                   pr_regressed, progressOthers>>

\* stop is cleared and the interpolator thread of the agent is started.
StartAgentInterpolator ==
    /\ pr_pc = "start_agent"
    /\ current_progress' = [current_progress EXCEPT !.stop = FALSE]
    /\ ip_pc' = [ip_pc EXCEPT ![pr_count] = "check"]
    /\ pr_pc' = "agent_run"
    /\ UNCHANGED <<pr_showing, pr_count, pr_data, ip_current_pct, ip_i, progress_bar,
                   pr_regressed, progressOthers>>

\* agent.analyze comes back: with a result, stop is set and the completion
\* is shown; after an exception the loop goes on to the next agent.
AgentReturns(outcome) ==
    /\ pr_pc = "agent_run"
    /\ IF outcome = "ok"
       THEN /\ current_progress' = [current_progress EXCEPT !.stop = TRUE]
            /\ pr_pc' = "agent_done"
            /\ UNCHANGED pr_count
       ELSE /\ pr_pc' = AfterAgent
            /\ pr_count' = IF AfterAgent = "agent_begin" THEN pr_count + 1 ELSE pr_count
            /\ UNCHANGED current_progress
    /\ UNCHANGED <<pr_showing, pr_data, ip_pc, ip_current_pct, ip_i, progress_bar,
                   pr_regressed, progressOthers>>

\* One pass of interpolator t through its locked part: it returns when the
\* loop is over, stop is set or the shared percent has reached end_pct, and
\* raises the shared percent to its own otherwise.
InterpolatorCheck(t) ==
    /\ ip_pc[t] = "check"
    /\ IF ip_i[t] >= InterpSteps \/ current_progress.stop
          \/ current_progress.pct >= InterpEnd(t)
       THEN /\ ip_pc' = [ip_pc EXCEPT ![t] = "done"]
            /\ UNCHANGED current_progress
       ELSE /\ ip_pc' = [ip_pc EXCEPT ![t] = "write"]
            /\ current_progress' =
                  [current_progress EXCEPT !.pct = Max2(current_progress.pct, ip_current_pct[t])]
    /\ UNCHANGED <<pr_pc, pr_showing, pr_count, pr_data, ip_current_pct, ip_i, progress_bar,
                   pr_regressed, progressOthers>>

\* Interpolator t, after its lock: it writes its current_pct to the bar
\* and advances it by pct_per_step.
InterpolatorWrite(t) ==
    /\ ip_pc[t] = "write"
    /\ BarWritten(ip_current_pct[t])
    /\ ip_current_pct' = [ip_current_pct EXCEPT ![t] = ip_current_pct[t] + PctPerStep(t)]
    /\ ip_i' = [ip_i EXCEPT ![t] = ip_i[t] + 1]
    /\ ip_pc' = [ip_pc EXCEPT ![t] = "check"]
    /\ UNCHANGED <<pr_pc, pr_showing, pr_count, pr_data, current_progress, progressOthers>>

NextProgress ==
    \/ UpdatePublish
    \/ UpdateShow
    \/ StartGatherInterpolator
    \/ \E outcome \in GatherOutcomes : GatherReturns(outcome)
    \/ StartAgentInterpolator
    \/ \E outcome \in AnalyzeOutcomes : AgentReturns(outcome)
    \/ \E t \in Interpolators : InterpolatorCheck(t)
    \/ \E t \in Interpolators : InterpolatorWrite(t)

(***************************************************************************)
(* Specifications: one per component                                       *)
(***************************************************************************)
\* One caller: the selector's own, sequential use of the rate-limited caller.
InitCall == RLInitCommon /\ rl_active = {"t1"} /\ rl_limit = MaxCalls /\ SelOff /\ GatherOff /\ AnalyzeOff /\ PortfolioOff /\ BlendOff /\ EtaOff /\ PerfOff /\ ProgressOff
NextCall == RLNext
SpecCall == InitCall /\ [][NextCall]_vars

\* Two threads sharing one selector instance, each making one call.
InitThreads == RLInitCommon /\ rl_active = Threads /\ rl_limit = 1 /\ SelOff /\ GatherOff /\ AnalyzeOff /\ PortfolioOff /\ BlendOff /\ EtaOff /\ PerfOff /\ ProgressOff
NextThreads == RLNext
SpecThreads == InitThreads /\ [][NextThreads]_vars

InitSelect ==
    /\ ProgressOff
    /\ PerfOff
    /\ EtaOff
    /\ BlendOff
    /\ RLOff
    /\ GatherOff
    /\ AnalyzeOff
    /\ PortfolioOff
    /\ sel_pc = "openai"
    /\ openai_tickers = <<>>
    /\ gemini_tickers = <<>>
    /\ all_candidates = <<>>
    /\ ticker_rationales = <<>>
    /\ final_selection_rounds = <<>>
    /\ unique_finalists = <<>>
    /\ final_tickers = <<>>
    /\ session_log = <<>>
    /\ saved_logs = <<>>
    /\ sel_calls = {}
    /\ sel_fellback = {}
    /\ sel_result = "none"

SpecSelect == InitSelect /\ [][NextSelect]_vars

InitGather ==
    /\ ProgressOff
    /\ PerfOff
    /\ EtaOff
    /\ BlendOff
    /\ RLOff
    /\ SelOff
    /\ AnalyzeOff
    /\ PortfolioOff
    /\ g_pc = "submit"
    /\ g_tasks = Tasks("raise", "raise", "raise")
    /\ g_pending = {}
    /\ g_collected = <<>>
    /\ data = EmptyDict

SpecGather == InitGather /\ [][NextGather]_vars

InitAnalyze == RLOff /\ SelOff /\ GatherOff /\ AnalyzeIdle("start") /\ PortfolioOff /\ BlendOff /\ EtaOff /\ PerfOff /\ ProgressOff

SpecAnalyze == InitAnalyze /\ [][NextAnalyze]_vars

InitPortfolio == RLOff /\ SelOff /\ GatherOff /\ AnalyzeOff /\ PortfolioIdle("select") /\ BlendOff /\ EtaOff /\ PerfOff /\ ProgressOff

SpecPortfolio == InitPortfolio /\ [][NextPortfolio]_vars

\* The blender on every agent_results map and weight map drawn.
InitBlend ==
    /\ ProgressOff
    /\ PerfOff
    /\ EtaOff
    /\ RLOff /\ SelOff /\ GatherOff /\ AnalyzeOff /\ PortfolioOff
    /\ bl_pc = "input"
    /\ \E v \in BlendScoreChoices[1] \cup {NoEntry},
          g \in BlendScoreChoices[2] \cup {NoEntry},
          m \in BlendScoreChoices[3] \cup {NoEntry},
          r \in BlendScoreChoices[4] \cup {NoEntry},
          s \in BlendScoreChoices[5] \cup {NoEntry} :
          bl_results = ResultsOf(<<v, g, m, r, s>>)
    /\ bl_weights \in BlendWeightMaps
    /\ bl_base = Rat(0, 1)
    /\ bl_multiplier = 0
    /\ bl_final = Rat(0, 1)
    /\ bl_label = ""

SpecBlend == InitBlend /\ [][NextBlend]_vars

\* A session whose first analysis starts, with or without recorded phase
\* times; the recorded times stay as they are.
InitEta ==
    /\ ProgressOff
    /\ PerfOff
    /\ RLOff /\ SelOff /\ GatherOff /\ AnalyzeOff /\ PortfolioOff /\ BlendOff
    /\ eta_previous = NoEta
    /\ eta_hist \in HistoryChoices
    /\ eta_analyses = 1
    /\ eta_calls = 0
    /\ eta_pct = 0
    /\ eta_nondecreasing = TRUE
    /\ eta_emitted = <<>>
    /\ eta_display = 0

SpecEta == InitEta /\ [][NextEta]_vars

\* One engine has been constructed with the history file absent.
InitPerf ==
    /\ ProgressOff
    /\ RLOff /\ SelOff /\ GatherOff /\ AnalyzeOff /\ PortfolioOff /\ BlendOff /\ EtaOff
    /\ pe_now = 0
    /\ pe_ticks = 0
    /\ pe_engines = {"e1"}
    /\ pe_runs = 0
    /\ pe_overlap = FALSE
    /\ pe_pc = [e \in Engines |-> "idle"]
    /\ pe_returned = [e \in Engines |-> "none"]
    /\ pe_movements = [e \in Engines |-> 0]
    /\ pe_i = [e \in Engines |-> 0]
    /\ current_phase = [e \in Engines |-> NoPhase]
    /\ phase_start_time = [e \in Engines |-> NoTime]
    /\ total_start_time = [e \in Engines |-> NoTime]
    /\ phase_times = [e \in Engines |-> EmptyDict]
    /\ historical_averages = [e \in Engines |-> SeedAverages]
    /\ timing_history = EmptyDict
    /\ pe_before = [e \in Engines |-> SeedAverages]
    /\ pe_estimate = NoEstimate

SpecPerf == InitPerf /\ [][NextPerf]_vars

\* Two engines over the one history file.
SpecStore == InitPerf /\ [][NextStore]_vars

\* One analyze_single_stock run about to make its first update_progress call.
InitProgress ==
    /\ RLOff /\ SelOff /\ GatherOff /\ AnalyzeOff /\ PortfolioOff /\ BlendOff /\ EtaOff /\ PerfOff
    /\ ProgressIdle("begin")

SpecProgress == InitProgress /\ [][NextProgress]_vars

(***************************************************************************)
(* Claims                                                                  *)
(***************************************************************************)

\* The stage record of document doc (a persisted session log) named name.
StagesNamed(doc, name) == {i \in 1..Len(doc) : doc[i].stage = name}

\* The extra narrowing call of the consolidation was made.
NarrowCallMade == \E c \in sel_calls : c.site = "narrow_to_5"

\* C1: once consolidation has completed the final set has exactly 5
\* tickers, whatever the size of the union of the three rounds (5, fewer,
\* more), and the extra narrowing call is made only when the union has more
\* than 5 members.
C1_FinalSetHasFive ==
    sel_pc \in {"save", "return", "done"} =>
        /\ Len(final_tickers) = TargetCount
        /\ Cardinality(Range(final_tickers)) = TargetCount
        /\ NarrowCallMade <=> Len(unique_finalists) > TargetCount

\* Every LLM call of the run fell back: both selectors, every rationale
\* call and the three narrowing rounds.
AllCallsFailed ==
    /\ {<<"openai", "">>, <<"gemini", "">>} \subseteq sel_fellback
    /\ \A t \in Range(all_candidates) : <<"rationale", t>> \in sel_fellback
    /\ \A n \in 1..3 : <<"round", RoundName(n)>> \in sel_fellback

\* The persisted document doc marks call c as a fallback.
MarkedAsFallback(doc, c) ==
    CASE c[1] = "openai" ->
            \E i \in StagesNamed(doc, "openai_initial_selection") :
                "fallback" \in DOMAIN doc[i].log /\ doc[i].log.fallback
      [] c[1] = "gemini" ->
            \E i \in StagesNamed(doc, "gemini_initial_selection") :
                "fallback" \in DOMAIN doc[i].log /\ doc[i].log.fallback
      [] c[1] = "rationale" ->
            \E i \in StagesNamed(doc, "rationale_generation") :
                "fallback" \in DOMAIN doc[i] /\ c[2] \in doc[i].fallback
      [] c[1] = "round" ->
            \E i \in StagesNamed(doc, "final_selection_rounds") :
                "fallback" \in DOMAIN doc[i] /\ c[2] \in doc[i].fallback
      [] OTHER ->
            \E i \in StagesNamed(doc, "final_consolidation") :
                "fallback" \in DOMAIN doc[i] /\ doc[i].fallback

\* C2: when every LLM call of a run fails the run still completes with
\* exactly 5 final tickers, and the persisted session log marks every call
\* that fell back as a fallback.
C2_OutageGivesFiveAndMarksFallbacks ==
    (sel_pc = "done" /\ AllCallsFailed) =>
        /\ Len(final_tickers) = TargetCount
        /\ Len(saved_logs) = 1
        /\ \A c \in sel_fellback : MarkedAsFallback(saved_logs[1], c)

\* The data gathering of the running call failed: _gather_data raised, or
\* the bundle it returned has no fundamentals.
GatheringFailed ==
    \/ a_gather = "raised"
    \/ a_gather = "returned" /\ ~Truthy(DictGet(a_data, "fundamentals", EmptyDict))

\* C3: when data gathering fails or yields no fundamentals,
\* analyze_single_stock does not raise: it returns a result with an error
\* field, blended_score = final_score = 0, eligible = False and empty
\* agent results, and no agent's analyze is called in that run.
C3_FailedGatherGivesErrorResult ==
    GatheringFailed =>
        /\ a_pc = "done"
        /\ a_invoked = <<>>
        /\ "error" \in DOMAIN a_result
        /\ a_result.blended_score.num = 0
        /\ a_result.final_score.num = 0
        /\ a_result.eligible = FALSE
        /\ DOMAIN a_result.agent_results = {}
        /\ DOMAIN a_result.agent_scores = {}

\* _gather_data returned a bundle without fundamentals and the call ended
\* with the error result.
C3_Witness ==
    /\ a_pc = "done"
    /\ a_gather = "returned"
    /\ ~Truthy(a_data["fundamentals"])
    /\ a_result.error = "No data available"

\* C4: recommend_portfolio completes and returns a portfolio whichever of
\* the per-ticker analyses fail, by returning an error result or by
\* raising: a failed ticker never makes the run raise, and every selected
\* ticker is analyzed.
C4_FailedTickersNeverAbort ==
    /\ pf_error # "KeyError: recommendation"
    /\ pf_pc = "done" =>
          /\ pf_analyzed = selected_tickers
          /\ "portfolio" \in DOMAIN pf_result

\* Every api_func invocation of thread t's current call was throttled.
AllThrottled(t) == \A i \in 1..Len(rl_hist[t]) : rl_hist[t][i] = "throttle"

\* C5: when every attempt is throttled the call is retried max_retries (3)
\* times, the attempt-th retry after attempt * 10 seconds (10s, 20s, 30s),
\* and the error is raised only after those retries; a success returns at
\* once, with no further invocation of api_func.
C5_ThreeRetriesThenRaise ==
    \A t \in rl_active :
        /\ (rl_pc[t] = "raised" /\ AllThrottled(t)) =>
              /\ Len(rl_waits[t]) = MaxRetries
              /\ \A i \in 1..MaxRetries : rl_waits[t][i] = i * BackoffStep
              /\ Len(rl_hist[t]) = MaxRetries + 1
        /\ rl_pc[t] = "returned" =>
              /\ rl_hist[t][Len(rl_hist[t])] = "ok"
              /\ \A i \in 1..(Len(rl_hist[t]) - 1) : rl_hist[t][i] = "throttle"

\* C6: whatever the interleaving of the threads sharing the selector, no two
\* invocations of api_func begin less than min_delay_between_calls apart.
C6_InvocationsSpaced == min_gap >= MinDelayBetweenCalls

\* The bundle field a task's result goes to.
FieldOf(name) == IF name = "benchmark" THEN "benchmark_history" ELSE name

BundleFields == {"fundamentals", "price_history", "benchmark_history"}

\* The empty default of a bundle field.
EmptyDefault(field) == IF field = "fundamentals" THEN EmptyDict ELSE "empty_frame"

\* C7 (as stated): _gather_data returns a bundle with fundamentals,
\* price_history and benchmark_history for every combination of the three
\* sub-fetches raising or returning empty, and the field of a sub-fetch
\* that raised holds its empty default.
C7_FailedFetchHoldsEmptyDefault ==
    g_pc = "done" =>
        /\ BundleFields \subseteq DOMAIN data
        /\ \A name \in Range(TaskNames) :
              g_tasks[name] = "raise" =>
                  data[FieldOf(name)] = EmptyDefault(FieldOf(name))

\* C7 (amended): _gather_data returns a bundle with the three fields for
\* every combination of sub-fetch outcomes; a failed fundamentals or
\* benchmark fetch leaves its field at the empty default; a failed
\* price-history fetch leaves price_history empty only when the fundamentals
\* are empty too, and otherwise price_history holds the series synthesized
\* from the fundamentals.
C7_FailedFetchDefaultsOrSynthetic ==
    g_pc = "done" =>
        /\ BundleFields \subseteq DOMAIN data
        /\ "_price_history_raw" \notin DOMAIN data
        /\ g_tasks["fundamentals"] = "raise" => data["fundamentals"] = EmptyDict
        /\ g_tasks["benchmark"] = "raise" => data["benchmark_history"] = "empty_frame"
        /\ g_tasks["price_history"] = "raise" =>
              data["price_history"] =
                  IF Truthy(data["fundamentals"])
                  THEN "synthetic_prices" ELSE "empty_frame"

\* The price-history fetch failed while the fundamentals arrived: the
\* bundle is returned with the synthesized series.
C7_Witness ==
    /\ g_pc = "done"
    /\ g_tasks = Tasks("basic", "raise", "series")
    /\ data["fundamentals"] = BasicFundamentals
    /\ data["price_history"] = "synthetic_prices"

\* Task name raised and the two others returned data.
FailsAlone(name) ==
    /\ g_tasks[name] = "raise"
    /\ g_tasks["fundamentals"] \in {"raise", "basic", "enhanced"}
    /\ g_tasks["price_history"] \in {"raise", "empty", "live"}
    /\ \A m \in Range(TaskNames) \ {name} : g_tasks[m] # "raise"

\* The bundle does not depend on the order in which the futures completed:
\* it is the bundle of the run that collects them in submission order.
OrderIndependent ==
    g_pc = "done" => data = GatherData(g_tasks, data["existing_portfolio"])

\* C8 (as stated): when one task fails alone, for every completion order,
\* the results of the two other tasks populate their bundle fields, and
\* the bundle does not depend on the completion order.
C8_OthersPopulateTheirFields ==
    /\ OrderIndependent
    /\ \A name \in Range(TaskNames) :
          (g_pc = "done" /\ FailsAlone(name)) =>
              \A m \in Range(TaskNames) \ {name} :
                  data[FieldOf(m)] = TaskResult(m, g_tasks[m])

\* C8 (amended): when one task fails alone, for every completion order,
\* the fundamentals and benchmark results populate their fields, and the
\* price-history result populates price_history unless the fundamentals
\* are marked comprehensive_enhanced, in which case price_history holds the
\* series synthesized from them; the bundle does not depend on the
\* completion order.
C8_OthersPopulateUnlessSuperseded ==
    /\ OrderIndependent
    /\ \A name \in Range(TaskNames) :
          (g_pc = "done" /\ FailsAlone(name)) =>
              \A m \in Range(TaskNames) \ {name} :
                  data[FieldOf(m)] =
                      IF m = "price_history" /\ g_tasks["fundamentals"] = "enhanced"
                      THEN "synthetic_prices"
                      ELSE TaskResult(m, g_tasks[m])

\* The price-history fetch fails alone and is the second future to
\* complete; the two other results are in the bundle.
C8_Witness ==
    /\ g_pc = "done"
    /\ g_tasks = Tasks("basic", "raise", "series")
    /\ g_collected = <<"benchmark", "price_history", "fundamentals">>
    /\ data["fundamentals"] = BasicFundamentals
    /\ data["benchmark_history"] = "benchmark_series"

\* The weights the running call blends with.
WeightsInForce ==
    IF Truthy(a_override) /\ a_pc = "done"
    THEN ApplyWeights(agent_weights, a_override)
    ELSE agent_weights

\* C9: whichever agents raise, every registered agent is called exactly
\* once, in registration order; agent_results gets exactly one entry per
\* agent, the entry of an agent that raised being the default
\* {score 50, rationale 'Analysis failed: ...', details {}}; and the run
\* returns a blended result.
C9_EveryAgentRunsOnce ==
    /\ a_invoked = SubSeq(AgentNames, 1, Len(a_invoked))
    /\ DOMAIN agent_results = Range(a_invoked)
    /\ \A i \in 1..Len(a_invoked) :
          a_returned[i].kind = "raise" =>
              /\ agent_results[a_invoked[i]].score = NeutralScore
              /\ agent_results[a_invoked[i]].rationale = "Analysis failed: agent error"
              /\ DOMAIN agent_results[a_invoked[i]].details = {}
    /\ (a_pc = "done" /\ ~GatheringFailed) =>
          /\ a_invoked = AgentNames
          /\ "error" \notin DOMAIN a_result
          /\ a_result.agent_results = agent_results
          /\ DOMAIN a_result.agent_results = Range(AgentNames)
          /\ a_result.blended_score = BlendScores(agent_results, WeightsInForce)
          /\ a_result.final_score = a_result.blended_score

\* The first and the last agent raised, the others did not, and the run
\* returned a scored result.
C9_Witness ==
    /\ a_pc = "done"
    /\ Len(a_returned) = Len(AgentNames)
    /\ a_returned[1].kind = "raise"
    /\ a_returned[2].kind = "score"
    /\ a_returned[5].kind = "raise"
    /\ a_result.eligible = TRUE

\* C10: every agent result that reaches _blend_scores has a non-null
\* score: a null or missing score is stored as exactly 50, a non-null score
\* is stored unchanged, and coalescing again (as done for the agent_scores
\* of the returned result) changes nothing.
C10_CoalescingIsIdempotent ==
    /\ \A i \in 1..Len(a_invoked) :
          a_returned[i].kind # "raise" =>
              LET stored == agent_results[a_invoked[i]].score IN
              /\ stored # NoneScore
              /\ a_returned[i].kind \in {"null", "missing"} => stored = NeutralScore
              /\ a_returned[i].kind = "score" => stored = a_returned[i].score
    /\ a_pc = "done" =>
          \A a \in DOMAIN a_result.agent_results :
              a_result.agent_scores[a] = a_result.agent_results[a].score

\* The agents present in both maps of the blend.
MatchingAgents == DOMAIN bl_results \cap DOMAIN bl_weights

\* Whether _blend_scores has returned.
Blended == bl_pc \in {"blended", "labelled"}

RECURSIVE RawSum(_, _)
\* The sum of f[a] over the agents a of the set.
RawSum(agents, f) ==
    IF agents = {} THEN 0
    ELSE LET a == CHOOSE x \in agents : TRUE
         IN f[a] + RawSum(agents \ {a}, f)

\* The scores as stored in agent_results, and score times weight.
StoredScores == [a \in DOMAIN bl_results |-> bl_results[a].score]
ScoreTimesWeight == [a \in MatchingAgents |-> StoredScores[a] * bl_weights[a]]

\* C11: base_score is the weight-weighted average of the stored scores of
\* exactly the agents present in both maps (scores 0 and 100 included), and
\* 50 when no agent is present in both.
C11_BaseIsWeightedAverage ==
    Blended =>
        /\ MatchingAgents = {} => bl_base = Rat(NeutralScore, 1)
        /\ RawSum(MatchingAgents, bl_weights) > 0 =>
              bl_base.num * RawSum(MatchingAgents, bl_weights)
                  = bl_base.den * RawSum(MatchingAgents, ScoreTimesWeight)

\* C12: for every weight map with at least one agent matching the results
\* (and a positive total weight, so that the average exists), base_score
\* lies between the least and the greatest score of the matching agents.
C12_BaseWithinMinAndMax ==
    (Blended /\ MatchingAgents # {} /\ RawSum(MatchingAgents, bl_weights) > 0) =>
        /\ \E a \in MatchingAgents : StoredScores[a] * bl_base.den <= bl_base.num
        /\ \E a \in MatchingAgents : bl_base.num <= StoredScores[a] * bl_base.den

\* C13: the upside_multiplier applied by _blend_scores is in [0.85, 1.35]
\* for every combination of agent scores, however many adjustments fire at
\* once.
C13_MultiplierWithinClamp ==
    Blended => (bl_multiplier >= 85 /\ bl_multiplier <= 135)

\* All three boosts fire at once, or both penalties do.
C13_Witness ==
    /\ Blended
    /\ \/ /\ GrowthFactor(bl_results) > 0
          /\ SentimentFactor(bl_results) > 0
          /\ ValueFactor(bl_results) > 0
       \/ /\ GrowthFactor(bl_results) < 0
          /\ RiskFactor(bl_results) < 0

\* The worked example: value 80, growth 85, macro 50, risk 60, sentiment 78
\* under the weights .20/.40/.10/.15/.15.
ExampleScores == <<80, 85, 50, 60, 78>>
IsExample == bl_results = ResultsOf(ExampleScores) /\ bl_weights = DefaultWeights

\* The multiplier, in hundredths, that the table of four independent
\* additive adjustments gives for the stored scores, after the clamp.
TableMultiplier ==
    LET Has(a) == a \in DOMAIN bl_results
        growth == IF ~Has("growth_momentum_agent") THEN 0
                  ELSE LET s == StoredScores["growth_momentum_agent"]
                       IN IF s >= 80 THEN 15 ELSE IF s >= 70 THEN 10
                          ELSE IF s >= 60 THEN 5 ELSE IF s < 40 THEN -5 ELSE 0
        sentiment == IF ~Has("sentiment_agent") THEN 0
                     ELSE LET s == StoredScores["sentiment_agent"]
                          IN IF s >= 75 THEN 8 ELSE IF s >= 65 THEN 5 ELSE 0
        value == IF Has("value_agent") /\ StoredScores["value_agent"] >= 75
                 THEN 5 ELSE 0
        risk == IF Has("risk_agent") /\ StoredScores["risk_agent"] < 30
                THEN -10 ELSE 0
        total == 100 + growth + sentiment + value + risk
    IN IF total > 135 THEN 135 ELSE IF total < 85 THEN 85 ELSE total

\* The label the breakpoints 80/70/60/40 give to final_score.
TableLabel ==
    IF bl_final.num >= 80 * bl_final.den THEN "STRONG BUY"
    ELSE IF bl_final.num >= 70 * bl_final.den THEN "BUY"
    ELSE IF bl_final.num >= 60 * bl_final.den THEN "HOLD"
    ELSE IF bl_final.num >= 40 * bl_final.den THEN "WEAK HOLD"
    ELSE "SELL"

\* The general part of C14: table, clamp, product and label.
FollowsTheTable ==
    /\ Blended =>
          /\ bl_multiplier = TableMultiplier
          /\ bl_final.num * bl_base.den * 100
                 = bl_final.den * bl_base.num * bl_multiplier
    /\ bl_pc = "labelled" => bl_label = TableLabel

\* C14 as stated: upside_multiplier is 1.0 plus the four independent
\* additive adjustments of the table, clamped; final_score is base_score
\* times upside_multiplier and is labelled by the breakpoints 80/70/60/40;
\* and the example gives base 74.7, multiplier 1.28, final about 95.6 and
\* STRONG BUY.
C14_TableAndExampleAsStated ==
    /\ FollowsTheTable
    /\ (bl_pc = "labelled" /\ IsExample) =>
          /\ bl_base.num * 10 = 747 * bl_base.den
          /\ bl_multiplier = 128
          /\ bl_final.num * 100 >= 9555 * bl_final.den
          /\ bl_final.num * 100 < 9565 * bl_final.den
          /\ bl_label = "STRONG BUY"

\* C14, amended: the same table, clamp, product and labels; the example gives
\* base 75.7 (16 + 34 + 5 + 9 + 11.7), multiplier 1.28, final about 96.9
\* (96.896) and STRONG BUY.
C14_TableAndExample ==
    /\ FollowsTheTable
    /\ (bl_pc = "labelled" /\ IsExample) =>
          /\ bl_base.num * 10 = 757 * bl_base.den
          /\ bl_multiplier = 128
          /\ bl_final.num * 1000 = 96896 * bl_final.den
          /\ bl_label = "STRONG BUY"

\* The example has been blended and labelled.
C14_Witness == bl_pc = "labelled" /\ IsExample

\* C15: the final_score returned by _blend_scores lies in [0, 100] for all
\* agent scores in [0, 100] and all weight maps.
C15_FinalScoreWithinRange ==
    Blended => (bl_final.num >= 0 /\ bl_final.num <= 100 * bl_final.den)

\* Whether a fetch of the running call delivered data.
Delivered(name) ==
    CASE name = "fundamentals" -> a_tasks[name] \in {"basic", "enhanced"}
      [] name = "price_history" -> a_tasks[name] = "live"
      [] OTHER -> a_tasks[name] = "series"

\* The call returned the error result / a scored result of all agents.
Aborted == a_pc = "done" /\ "error" \in DOMAIN a_result
Scored ==
    /\ a_pc = "done"
    /\ "error" \notin DOMAIN a_result
    /\ a_invoked = AgentNames
    /\ DOMAIN a_result.agent_scores = Range(AgentNames)

\* C16 as stated: a per-ticker run is aborted with an error result only when
\* all of the fundamentals, price-history and benchmark fetches failed;
\* whenever at least one of the three delivered data the agents are run and
\* a scored result is returned.
C16_AbortsOnlyOnTotalFailure ==
    a_pc = "done" =>
        /\ Aborted => (a_gather = "raised" \/ \A n \in Range(TaskNames) : ~Delivered(n))
        /\ (a_gather = "returned" /\ \E n \in Range(TaskNames) : Delivered(n)) => Scored

\* C16, amended: a per-ticker run is aborted with an error result exactly
\* when data gathering raised or delivered no fundamentals, whatever the
\* price-history and benchmark fetches did; whenever the fundamentals were
\* delivered, failed price-history and benchmark fetches are not fatal: the
\* agents are run and a scored result is returned.
C16_AbortsExactlyWithoutFundamentals ==
    a_pc = "done" =>
        /\ Aborted <=> (a_gather = "raised" \/ ~Delivered("fundamentals"))
        /\ (a_gather = "returned" /\ Delivered("fundamentals")) => Scored

\* A run aborted although the price history and the benchmark were
\* delivered, and a run scored although both of them failed.
C16_Witness ==
    \/ /\ Aborted /\ a_gather = "returned"
       /\ Delivered("price_history") /\ Delivered("benchmark")
    \/ /\ Scored
       /\ ~Delivered("price_history") /\ ~Delivered("benchmark")

\* C17: whatever the LLM calls return, every ticker in each narrowing
\* round's picks, in unique_finalists and in the final set is a member,
\* in the same case, of all_candidates, so that every final ticker has a
\* rationale in ticker_rationales.
C17_SelectedTickersAreCandidates ==
    /\ \A i \in 1..Len(final_selection_rounds) :
          Range(final_selection_rounds[i]) \subseteq Range(all_candidates)
    /\ Range(unique_finalists) \subseteq Range(all_candidates)
    /\ Range(final_tickers) \subseteq Range(all_candidates)
    /\ sel_pc \in {"save", "return", "done"} =>
          Range(final_tickers) \subseteq DOMAIN ticker_rationales

\* The stages in the order of select_portfolio_tickers.
StageOrder ==
    <<"openai_initial_selection", "gemini_initial_selection", "aggregation",
      "rationale_generation", "final_selection_rounds", "final_consolidation">>

\* The number of stage records appended when the run is at position pc.
StagesLoggedAt(pc) ==
    CASE pc = "openai" -> 0
      [] pc = "gemini" -> 1
      [] pc = "aggregate" -> 2
      [] pc = "rationale" -> 3
      [] pc = "rounds" -> 4
      [] pc = "consolidate" -> 5
      [] OTHER -> Len(StageOrder)

\* C18: the stage records are appended to the session log in exactly the
\* order openai_initial_selection, gemini_initial_selection, aggregation,
\* rationale_generation, final_selection_rounds, final_consolidation, each
\* before the next stage starts; the log is persisted exactly once per run,
\* after final_consolidation has been appended and never before.
C18_StagesInOrderPersistedOnce ==
    /\ Len(session_log) <= Len(StageOrder)
    /\ \A i \in 1..Len(session_log) : session_log[i].stage = StageOrder[i]
    /\ sel_pc # "raised" => Len(session_log) = StagesLoggedAt(sel_pc)
    /\ Len(saved_logs) <= 1
    /\ saved_logs # <<>> =>
          /\ Len(session_log) = Len(StageOrder)
          /\ saved_logs[1] = session_log
    /\ sel_pc \in {"return", "done", "raised"} => Len(saved_logs) = 1

\* C19: on every run, error paths included, each percent passed to the
\* progress sink is in [0, 100] and the percent never decreases between
\* consecutive progress updates of one phase (data gathering, each agent,
\* finalization).
C19_ProgressMonotoneWithinPhase ==
    /\ \A i \in 1..Len(progress_log) : progress_log[i] >= 0 /\ progress_log[i] <= 100
    /\ \A i \in 1..(Len(progress_log) - 1) :
          progress_phases[i] = progress_phases[i + 1] =>
              progress_log[i] <= progress_log[i + 1]

\* C20: within one analysis, over any sequence of _estimate_time_remaining
\* calls with non-decreasing progress_pct and unchanged phase durations,
\* each emitted estimate is at most the previously emitted estimate, and no
\* emitted estimate exceeds 1.2 times the previously emitted estimate.
C20_EstimatesNeverRise ==
    eta_nondecreasing =>
        \A i \in 1..(Len(eta_emitted) - 1) :
            /\ eta_emitted[i + 1] <= eta_emitted[i]
            /\ eta_emitted[i + 1] * 5 <= eta_emitted[i] * 6

\* C22: every outbound LLM call of the selector (both initial selections,
\* every rationale call, every narrowing call) goes through
\* _rate_limited_api_call.
C22_EveryLLMCallIsRateLimited ==
    \A c \in sel_calls : c.rate_limited

\* C23: whenever _gather_data returns non-empty fundamentals, the bundle's
\* price_history is a non-empty series, whether the live price-history call
\* succeeded, returned an empty table, raised, or was superseded by the
\* series synthesized from the fundamentals.
C23_FundamentalsGivePriceSeries ==
    (g_pc = "done" /\ Truthy(data["fundamentals"])) =>
        data["price_history"] \in {"live_prices", "synthetic_prices"}

\* C27: the smoothed ETA state is per run: the first estimate a run emits is
\* computed with no previous estimate, so it equals the unsmoothed
\* phase-based value whatever earlier runs of the session emitted.
C27_FirstEstimateIsUnsmoothed ==
    (Len(eta_emitted) = 1 /\ eta_display > 0) =>
        eta_emitted[1] = RawRemaining(eta_pct, eta_hist)

\* C28: agent_weights overrides affect only the run they are passed to: on
\* every exit path (success, data-gathering failure, no-fundamentals error)
\* the orchestrator's agent_weights are back at their value before the
\* call, the configured weights.
C28_WeightsRestoredOnEveryExit ==
    a_pc = "done" => agent_weights = DefaultWeights

\* C21: the estimator returns no estimate when queried before any phase has
\* completed; once overall progress is at or above 85% each emitted estimate
\* is below the one before it (it decays toward zero whatever the per-phase
\* computation gives); and at completion (100%) the displayed time remaining
\* is zero or empty.
C21_NoEarlyEstimateForcedDecayZeroAtEnd ==
    eta_calls > 0 =>
        /\ eta_pct < Phases[1].end_pct => eta_display = 0
        /\ (eta_pct >= 85 /\ eta_display > 0 /\ Len(eta_emitted) >= 2) =>
              eta_emitted[Len(eta_emitted)] < eta_emitted[Len(eta_emitted) - 1]
        /\ eta_pct >= 100 => eta_display = 0

\* What estimate_remaining is said to return for the latest call: the
\* historical average of the current phase times (1 - p), plus the
\* historical averages of the phases after it in phase_order.
ClaimedRemaining(call) ==
    (EstimatedPhaseTime(call.averages, call.phase, call.movement_count)
         * (call.den - call.num)) \div call.den
    + RemainingPhaseTime(call.averages, call.phase, call.movement_count)

\* Whether the latest call took its current-phase term from the time
\* measured per processed movement.
MeasuredPerMovement(call) ==
    /\ call.phase = "analyze_movements"
    /\ call.movement_count > 0
    /\ (call.movement_count * call.num) \div call.den > 0

\* Whether the latest call scaled its total by elapsed_total / estimated_so_far.
Adjusted(call) ==
    /\ call.elapsed_total > 5000
    /\ \E phase \in call.completed : phase \in {"identify_movements", "analyze_movements"}

Refined(old, observed) == (7 * old + 3 * observed) \div 10

\* Whether engine e has returned from a call that ran finalize().
FinalizedRun(e) ==
    /\ e \in pe_engines
    /\ pe_pc[e] = "idle"
    /\ pe_returned[e] \in {"full", "empty"}

\* The phases a finalized run of engine e went through.
CompletedPhases(e) ==
    IF pe_returned[e] = "empty" THEN {"identify_movements"} ELSE Range(phase_order)

\* C25: after a finalized run, for every phase timed in it, the persisted
\* average that estimate_remaining reads for that phase is 0.7 * old + 0.3 *
\* observed, the observed time being the phase's duration (or, for the
\* per-movement average of analyze_movements, that duration per movement).
C25_AveragesRefinedByFinalizedRuns ==
    \A e \in Engines :
        FinalizedRun(e) =>
            \A phase \in CompletedPhases(e) :
                LET key == phase_key_map(phase)
                    old == pe_before[e][key]
                    observed == phase_times[e][phase]
                IN /\ key \in DOMAIN timing_history
                   /\ timing_history[key] \in
                          {Refined(old, observed),
                           Refined(old, observed \div Max2(pe_movements[e], 1))}

\* Whether engine e has returned from analyze_performance_period.
Returned(e) ==
    /\ e \in pe_engines
    /\ pe_pc[e] = "idle"
    /\ pe_returned[e] # "none"

\* C30: once analyze_performance_period has returned, on whatever path, the
\* estimator has no open phase, and no duration in phase_times is longer
\* than the run that recorded it has lasted.
C30_NoOpenPhaseAfterReturn ==
    \A e \in Engines :
        /\ Returned(e) => current_phase[e] = NoPhase
        /\ pe_returned[e] # "none" =>
              \A phase \in DOMAIN phase_times[e] :
                  phase_times[e][phase] <= pe_now - total_start_time[e]

\* The averages the file holds after two finalized runs whose updates both
\* took effect, the run timed as first going first.
BothApplied(first, second) ==
    UpdatedAverages(UpdatedAverages(SeedAverages, first), second)

\* C26: when two engines whose calls ran at the same time have both
\* finalized, the averages in the history file are the seeds refined by the
\* durations of both runs, in one order or the other.
C26_NeitherUpdateIsLost ==
    (pe_overlap /\ FinalizedRun("e1") /\ FinalizedRun("e2")) =>
        timing_history \in {BothApplied(phase_times["e1"], phase_times["e2"]),
                            BothApplied(phase_times["e2"], phase_times["e1"])}

\* C29: whatever the interleaving of the main thread and the interpolator
\* threads of one run, no write to the progress bar is lower than the
\* write before it.
C29_ProgressBarNeverGoesBack == ~pr_regressed

====
